---- MODULE Spec2Model ----
(***************************************************************************)
(* Model of the monthly CSM report application (src/app.py,                *)
(* src/ppt_generator.py): the six PostgreSQL tables the web handlers       *)
(* write, the handlers themselves (one action per request, with the        *)
(* statement at which the database may fail as an input), and the          *)
(* threshold ladders of the slide generator.                               *)
(***************************************************************************)
EXTENDS Integers, Sequences, FiniteSets, TLC

VARIABLES db, last, nops, cls

vars == <<db, last, nops, cls>>

(***************************************************************************)
(* Bounds.                                                                 *)
(***************************************************************************)
MaxMonth == 2
MaxOps == 3
MaxOpsLoaded == 1
MaxOpsFaulty == 1

(***************************************************************************)
(* Customer names are character sequences, so that the strip() of          *)
(* delete_record and the LOWER(TRIM()) of its last DELETE are computed.    *)
(***************************************************************************)
NameA == <<"a">>
NameUpperA == <<"A">>
NamePaddedA == <<" ", "a">>
NoName == <<>>

Names == {NameA, NameUpperA, NamePaddedA}
NameInputs == Names \cup {NoName}

RECURSIVE LStrip(_)
LStrip(s) == IF s # <<>> /\ Head(s) = " " THEN LStrip(Tail(s)) ELSE s

RECURSIVE RStrip(_)
RStrip(s) ==
    IF s # <<>> /\ s[Len(s)] = " " THEN RStrip(SubSeq(s, 1, Len(s) - 1)) ELSE s

Strip(s) == RStrip(LStrip(s))

Lower(s) == [i \in DOMAIN s |-> IF s[i] = "A" THEN "a" ELSE s[i]]

LowerTrim(s) == Lower(Strip(s))

(***************************************************************************)
(* Dates.  A date is 100 * month + day; month_year columns hold dates.     *)
(* A request carries the month as text: fmt "ymd" is YYYY-MM-DD, "ym" is   *)
(* YYYY-MM, "bad" is anything else.                                        *)
(***************************************************************************)
MkDate(m, d) == 100 * m + d
Days == {1}

\* insert_record accepts YYYY-MM-DD with any day: the tables can also hold
\* a row in the middle of the first month.
MidMonth == MkDate(1, 15)

Dates == {MkDate(m, d) : m \in 1..MaxMonth, d \in Days} \cup {MidMonth}
NoDate == 0

FirstDays == [fmt : {"ymd"}, m : 1..MaxMonth, d : Days]

YearMonth == [fmt |-> "ym", m |-> 1, d |-> 1]

NoMonth == [fmt |-> "bad", m |-> 1, d |-> 1]

\* insert_record and delete_record parse the text themselves.
MonthInputs == FirstDays \cup {YearMonth, NoMonth}

\* The edit handlers and save_config take YYYY-MM-DD; any other text ends
\* the request the same way, YYYY-MM stands for it.
EditMonthInputs == FirstDays \cup {YearMonth}

\* insert_record: strptime with "%Y-%m", then "%Y-%m-%d"; the day is kept.
ParseInsertMonth(raw) ==
    CASE raw.fmt = "ym" -> MkDate(raw.m, 1)
      [] raw.fmt = "ymd" -> MkDate(raw.m, raw.d)
      [] OTHER -> NoDate

\* delete_record: every accepted format is normalised to the first day.
ParseDeleteMonth(raw) ==
    CASE raw.fmt = "ymd" -> MkDate(raw.m, 1)
      [] raw.fmt = "ym" -> MkDate(raw.m, 1)
      [] OTHER -> NoDate

\* save_config: strptime(month, "%Y-%m-%d") only.
ParseConfigMonth(raw) ==
    IF raw.fmt = "ymd" THEN MkDate(raw.m, raw.d) ELSE NoDate

\* The edit handlers pass the text to PostgreSQL, which casts it to a date;
\* YYYY-MM is not a date literal there and the statement raises.
SqlDate(raw) ==
    IF raw.fmt = "ymd" THEN MkDate(raw.m, raw.d) ELSE NoDate

(***************************************************************************)
(* Rows.  The updated_* columns keep the names of the source; the value    *)
(* of a percentage column is kept in hundredths (the handlers divide the   *)
(* form value by 100 before both writes).                                  *)
(***************************************************************************)
NoRow == [absent |-> TRUE]

\* A form value is modelled by the number it spells; NonNumeric stands for
\* text that int() and float() reject.
NonNumeric == -1

\* availability / 100: a percentage is stored as a fraction; the stored
\* value v/100 is written [hundredths |-> v].
DivideBy100(v) == [hundredths |-> v]

AvZero ==
    [updated_availability |-> DivideBy100(0), updated_target |-> DivideBy100(0)]

UsZero ==
    [updated_prod_limit |-> 0, updated_prod_used |-> 0,
     updated_test_limit |-> 0, updated_test_used |-> 0,
     updated_dev_limit |-> 0, updated_dev_used |-> 0]

StZero ==
    [updated_prod_target_storage_gb |-> 0, updated_prod_storage_gb |-> 0,
     updated_test_target_storage_gb |-> 0, updated_test_storage_gb |-> 0,
     updated_dev_target_storage_gb |-> 0, updated_dev_storage_gb |-> 0]

TkZero ==
    [updated_tickets_opened |-> 0, updated_tickets_closed |-> 0,
     updated_tickets_backlog |-> 0,
     updated_current_opened_tickets |-> 0,
     updated_current_closed_tickets |-> 0,
     updated_current_backlog_tickets |-> 0]

Keys == Names \X Dates

Tables == {"customer_mapping_table", "final_computed_table",
           "availability_table", "users_table", "storage_table",
           "tickets_computed_table"}

DomainTables == {"availability_table", "users_table", "storage_table",
                 "tickets_computed_table"}

DataTables == DomainTables \cup {"final_computed_table"}

\* The part of a final_computed_table row that a domain table mirrors.
DomainPart(t) ==
    CASE t = "availability_table" -> "av"
      [] t = "users_table" -> "us"
      [] t = "storage_table" -> "st"
      [] t = "tickets_computed_table" -> "tk"

EmptyDb == [t \in Tables |-> [k \in Keys |-> NoRow]]

Has(d, t, k) == d[t][k] # NoRow

(***************************************************************************)
(* Transactions (psycopg2, autocommit off).  A statement that raises       *)
(* leaves the PostgreSQL transaction aborted: later statements raise too   *)
(* and COMMIT then rolls back.  A connection dropped without commit rolls  *)
(* back as well.                                                           *)
(***************************************************************************)
Begin(d) == [data |-> d, aborted |-> FALSE]

Exec(tx, fails, effect) ==
    IF tx.aborted \/ fails
    THEN [tx EXCEPT !.aborted = TRUE]
    ELSE [tx EXCEPT !.data = effect]

CommitIgnoringAbort(tx, d) == tx.data

Commit(tx, d) == IF tx.aborted THEN d ELSE tx.data

\* The edit handlers: an exception skips conn.commit(), the connection is
\* dropped and the server discards the transaction.
AutocommitOutcome(tx, d) == tx.data

EditOutcome(tx, d) == IF tx.aborted THEN d ELSE Commit(tx, d)

(***************************************************************************)
(* Row shapes.                                                             *)
(***************************************************************************)
\* A domain table keeps the original columns next to the updated_* ones;
\* base has the same shape, without the updated_ prefix in the source.
DomainRow(base, upd) == [base |-> base, upd |-> upd]

FinalRow(p, s, av, us, st, tk) ==
    [csm_primary |-> p, csm_secondary |-> s,
     av |-> av, us |-> us, st |-> st, tk |-> tk]

ConfigRow(p, s, envs, months) ==
    [csm_primary |-> p, csm_secondary |-> s,
     no_of_environments |-> envs, no_of_months |-> months,
     customer_full_name |-> "", customer_uid |-> <<>>,
     structured |-> [null |-> TRUE]]

\* UPDATE t SET ... WHERE P(key): F is applied to every matching row.
UpdateWhere(d, t, P(_), F(_)) ==
    [d EXCEPT ![t] =
        [k \in Keys |-> IF Has(d, t, k) /\ P(k) THEN F(d[t][k]) ELSE d[t][k]]]

\* DELETE FROM t WHERE P(key).
DeleteWhere(d, t, P(_)) ==
    [d EXCEPT ![t] = [k \in Keys |-> IF P(k) THEN NoRow ELSE d[t][k]]]

RowCount(d, t, P(_)) == Cardinality({k \in Keys : Has(d, t, k) /\ P(k)})

\* INSERT of one row; the caller decides what a key conflict means.
InsertRow(d, t, k, row) == [d EXCEPT ![t][k] = row]

(***************************************************************************)
(* Failure input of a request: 0 = every statement succeeds, n > 0 = the   *)
(* n-th statement of the handler raises, ConnFail = get_db_connection()    *)
(* returns None.                                                           *)
(***************************************************************************)
ConnFail == -1

FailPoints(n) == (0..n) \cup {ConnFail}

Result(op, c, raw, res, inp) ==
    [op |-> op, customer |-> c, month |-> raw, res |-> res, inp |-> inp,
     warnings |-> {}]

NoInput == [none |-> TRUE]

(***************************************************************************)
(* save_availability                                                       *)
(***************************************************************************)
AvailInputs ==
    { [availability |-> 95, target |-> 90],
      [availability |-> 101, target |-> 90],
      [availability |-> NonNumeric, target |-> 90] }

AvOf(inp) ==
    [updated_availability |-> DivideBy100(inp.availability),
     updated_target |-> DivideBy100(inp.target)]

Outcome(d, res) == [db |-> d, res |-> res]

AvailUpdateFinal(d, c, date, inp) ==
    LET Here(k) == k[1] = c /\ k[2] = date
        Set(r) == [r EXCEPT !.av = AvOf(inp)]
    IN  UpdateWhere(d, "final_computed_table", Here, Set)

AvailUpdateDomain(d, c, date, inp) ==
    LET Here(k) == k[1] = c /\ k[2] = date
        Set(r) == [r EXCEPT !.upd = AvOf(inp)]
    IN  UpdateWhere(d, "availability_table", Here, Set)

AvailTx(d, c, date, inp, f) ==
    LET t0 == Begin(d)
        t1 == Exec(t0, f = 1 \/ date = NoDate,
                   AvailUpdateFinal(t0.data, c, date, inp))
        t2 == Exec(t1, f = 2, AvailUpdateDomain(t1.data, c, date, inp))
    IN  t2

save_availability(d, c, raw, inp, f) ==
    IF inp.availability = NonNumeric \/ inp.target = NonNumeric
    THEN Outcome(d, "error")
    ELSE IF inp.availability > 100 \/ inp.target > 100
    THEN Outcome(d, "rejected")
    ELSE IF f = ConnFail
    THEN Outcome(d, "error")
    ELSE LET tx == AvailTx(d, c, SqlDate(raw), inp, f)
         IN  Outcome(EditOutcome(tx, d), IF tx.aborted THEN "error" ELSE "ok")

(***************************************************************************)
(* save_users                                                              *)
(***************************************************************************)
UsersInputs ==
    { [prod_limit |-> 10, prod_used |-> 4, test_limit |-> 6, test_used |-> 2,
       dev_limit |-> 3, dev_used |-> 1],
      [prod_limit |-> 20, prod_used |-> 25, test_limit |-> 8, test_used |-> 9,
       dev_limit |-> 0, dev_used |-> 0],
      [prod_limit |-> 10, prod_used |-> 4, test_limit |-> 6, test_used |-> 2,
       dev_limit |-> 0, dev_used |-> 5],
      [prod_limit |-> NonNumeric, prod_used |-> 4, test_limit |-> 6,
       test_used |-> 2, dev_limit |-> 3, dev_used |-> 1] }

UsOf(inp) ==
    [updated_prod_limit |-> inp.prod_limit, updated_prod_used |-> inp.prod_used,
     updated_test_limit |-> inp.test_limit, updated_test_used |-> inp.test_used,
     updated_dev_limit |-> inp.dev_limit, updated_dev_used |-> inp.dev_used]

\* SET updated_prod_limit, updated_test_limit, updated_dev_limit
UsLimitsAndUsed(us, inp) == UsOf(inp)

UsLimits(us, inp) ==
    [us EXCEPT !.updated_prod_limit = inp.prod_limit,
               !.updated_test_limit = inp.test_limit,
               !.updated_dev_limit = inp.dev_limit]

FutureAnyCustomer(k, c, date) == k[2] > date

Future(k, c, date) == k[1] = c /\ k[2] > date

UsersUpdateFinal(d, c, date, inp) ==
    LET Here(k) == k[1] = c /\ k[2] = date
        Set(r) == [r EXCEPT !.us = UsOf(inp)]
    IN  UpdateWhere(d, "final_computed_table", Here, Set)

UsersPropagateFinal(d, c, date, inp) ==
    LET Later(k) == Future(k, c, date)
        Set(r) == [r EXCEPT !.us = UsLimits(r.us, inp)]
    IN  UpdateWhere(d, "final_computed_table", Later, Set)

UsersUpdateDomain(d, c, date, inp) ==
    LET Here(k) == k[1] = c /\ k[2] = date
        Set(r) == [r EXCEPT !.upd = UsOf(inp)]
    IN  UpdateWhere(d, "users_table", Here, Set)

UsersPropagateDomainSkipped(d, c, date, inp) == d

UsersPropagateDomain(d, c, date, inp) ==
    LET Later(k) == Future(k, c, date)
        Set(r) == [r EXCEPT !.upd = UsLimits(r.upd, inp)]
    IN  UpdateWhere(d, "users_table", Later, Set)

UsersTx(d, c, date, inp, f) ==
    LET t0 == Begin(d)
        t1 == Exec(t0, f = 1 \/ date = NoDate,
                   UsersUpdateFinal(t0.data, c, date, inp))
        t2 == Exec(t1, f = 2, UsersPropagateFinal(t1.data, c, date, inp))
        t3 == Exec(t2, f = 3, UsersUpdateDomain(t2.data, c, date, inp))
        t4 == Exec(t3, f = 4, UsersPropagateDomain(t3.data, c, date, inp))
    IN  t4

UsersWarnings(inp) ==
    (IF inp.prod_used > inp.prod_limit THEN {"Prod Used > Prod Limit"} ELSE {})
    \cup
    (IF inp.test_used > inp.test_limit THEN {"Test Used > Test Limit"} ELSE {})
    \cup
    (IF inp.dev_used > inp.dev_limit /\ inp.dev_limit > 0
     THEN {"Dev Used > Dev Limit"} ELSE {})

\* The response of save_users: the warnings go with a success only.
UsersOutcome(d, res, warnings) ==
    [db |-> d, res |-> res, warnings |-> warnings]

save_users(d, c, raw, inp, f) ==
    IF \E x \in DOMAIN inp : inp[x] = NonNumeric
    THEN UsersOutcome(d, "error", {})
    ELSE IF f = ConnFail
    THEN UsersOutcome(d, "error", {})
    ELSE LET tx == UsersTx(d, c, SqlDate(raw), inp, f)
         IN  IF tx.aborted
             THEN UsersOutcome(EditOutcome(tx, d), "error", {})
             ELSE UsersOutcome(EditOutcome(tx, d), "ok", UsersWarnings(inp))

(***************************************************************************)
(* save_storage                                                            *)
(***************************************************************************)
StorageInputs ==
    { [prod_target |-> 100, prod_actual |-> 40, test_target |-> 50,
       test_actual |-> 20, dev_target |-> 30, dev_actual |-> 10],
      [prod_target |-> NonNumeric, prod_actual |-> 70, test_target |-> 60,
       test_actual |-> 65, dev_target |-> 0, dev_actual |-> 0] }

\* to_decimal: text that is no number becomes the default 0.0
to_decimal(v) == IF v = NonNumeric THEN 0 ELSE v

StOf(inp) ==
    [updated_prod_target_storage_gb |-> to_decimal(inp.prod_target),
     updated_prod_storage_gb |-> to_decimal(inp.prod_actual),
     updated_test_target_storage_gb |-> to_decimal(inp.test_target),
     updated_test_storage_gb |-> to_decimal(inp.test_actual),
     updated_dev_target_storage_gb |-> to_decimal(inp.dev_target),
     updated_dev_storage_gb |-> to_decimal(inp.dev_actual)]

StTargets(st, inp) ==
    [st EXCEPT
        !.updated_prod_target_storage_gb = to_decimal(inp.prod_target),
        !.updated_test_target_storage_gb = to_decimal(inp.test_target),
        !.updated_dev_target_storage_gb = to_decimal(inp.dev_target)]

StorageUpdateFinal(d, c, date, inp) ==
    LET Here(k) == k[1] = c /\ k[2] = date
        Set(r) == [r EXCEPT !.st = StOf(inp)]
    IN  UpdateWhere(d, "final_computed_table", Here, Set)

StoragePropagateFinal(d, c, date, inp) ==
    LET Later(k) == Future(k, c, date)
        Set(r) == [r EXCEPT !.st = StTargets(r.st, inp)]
    IN  UpdateWhere(d, "final_computed_table", Later, Set)

StorageUpdateDomain(d, c, date, inp) ==
    LET Here(k) == k[1] = c /\ k[2] = date
        Set(r) == [r EXCEPT !.upd = StOf(inp)]
    IN  UpdateWhere(d, "storage_table", Here, Set)

StoragePropagateDomain(d, c, date, inp) ==
    LET Later(k) == Future(k, c, date)
        Set(r) == [r EXCEPT !.upd = StTargets(r.upd, inp)]
    IN  UpdateWhere(d, "storage_table", Later, Set)

StorageTx(d, c, date, inp, f) ==
    LET t0 == Begin(d)
        t1 == Exec(t0, f = 1 \/ date = NoDate,
                   StorageUpdateFinal(t0.data, c, date, inp))
        t2 == Exec(t1, f = 2, StoragePropagateFinal(t1.data, c, date, inp))
        t3 == Exec(t2, f = 3, StorageUpdateDomain(t2.data, c, date, inp))
        t4 == Exec(t3, f = 4, StoragePropagateDomain(t3.data, c, date, inp))
    IN  t4

save_storage(d, c, raw, inp, f) ==
    IF f = ConnFail
    THEN Outcome(d, "error")
    ELSE LET tx == StorageTx(d, c, SqlDate(raw), inp, f)
         IN  Outcome(EditOutcome(tx, d), IF tx.aborted THEN "error" ELSE "ok")

(***************************************************************************)
(* save_tickets                                                            *)
(***************************************************************************)
TicketsInputs ==
    { [opened |-> 7, closed |-> 5, curr_backlog |-> 2, overall_backlog |-> 9],
      [opened |-> NonNumeric, closed |-> 5, curr_backlog |-> 2,
       overall_backlog |-> 9] }

TkSet(tk, inp) ==
    [tk EXCEPT !.updated_current_opened_tickets = inp.opened,
               !.updated_current_closed_tickets = inp.closed,
               !.updated_current_backlog_tickets = inp.curr_backlog,
               !.updated_tickets_backlog = inp.overall_backlog]

TicketsUpdateFinal(d, c, date, inp) ==
    LET Here(k) == k[1] = c /\ k[2] = date
        Set(r) == [r EXCEPT !.tk = TkSet(r.tk, inp)]
    IN  UpdateWhere(d, "final_computed_table", Here, Set)

TicketsUpdateDomain(d, c, date, inp) ==
    LET Here(k) == k[1] = c /\ k[2] = date
        Set(r) == [r EXCEPT !.upd = TkSet(r.upd, inp)]
    IN  UpdateWhere(d, "tickets_computed_table", Here, Set)

TicketsTx(d, c, date, inp, f) ==
    LET t0 == Begin(d)
        t1 == Exec(t0, f = 1 \/ date = NoDate,
                   TicketsUpdateFinal(t0.data, c, date, inp))
        t2 == Exec(t1, f = 2, TicketsUpdateDomain(t1.data, c, date, inp))
    IN  t2

save_tickets(d, c, raw, inp, f) ==
    IF \E x \in DOMAIN inp : inp[x] = NonNumeric
    THEN Outcome(d, "error")
    ELSE IF f = ConnFail
    THEN Outcome(d, "error")
    ELSE LET tx == TicketsTx(d, c, SqlDate(raw), inp, f)
         IN  Outcome(EditOutcome(tx, d), IF tx.aborted THEN "error" ELSE "ok")

(***************************************************************************)
(* insert_record                                                           *)
(***************************************************************************)
ConfigInputs ==
    { [csm_primary |-> "p1", csm_secondary |-> "", no_of_months |-> 3,
       no_of_environments |-> 3],
      [csm_primary |-> "p1", csm_secondary |-> "s1",
       no_of_months |-> NonNumeric, no_of_environments |-> 2] }

TableInputs ==
    { [updated_availability |-> 92, updated_target |-> 90,
       updated_prod_limit |-> 12, updated_prod_used |-> 11,
       updated_test_limit |-> 7, updated_test_used |-> NonNumeric,
       updated_dev_limit |-> 2, updated_dev_used |-> 1,
       updated_prod_target_storage_gb |-> 80, updated_prod_storage_gb |-> 35,
       updated_test_target_storage_gb |-> 45, updated_test_storage_gb |-> 15,
       updated_dev_target_storage_gb |-> 25, updated_dev_storage_gb |-> 5,
       updated_tickets_opened |-> 13, updated_tickets_closed |-> 14,
       updated_tickets_backlog |-> 15,
       updated_current_opened_tickets |-> 16,
       updated_current_closed_tickets |-> 17,
       updated_current_backlog_tickets |-> 18] }

\* to_int / to_float: text that is no number becomes 0
to_num(v) == IF v = NonNumeric THEN 0 ELSE v

PayloadOf(inp) ==
    [x \in DOMAIN inp |->
        IF x \in {"updated_availability", "updated_target"}
        THEN DivideBy100(to_num(inp[x]))
        ELSE to_num(inp[x])]

Project(rec, shape) == [x \in DOMAIN shape |-> rec[x]]

HasConfigSameMonth(d, c, date) ==
    date \in Dates /\ c \in Names /\ Has(d, "customer_mapping_table", <<c, date>>)

\* SELECT 1 FROM customer_mapping_table WHERE customer_name = %s
HasConfig(d, c, date) ==
    \E k \in Keys : k[1] = c /\ Has(d, "customer_mapping_table", k)

\* INSERT ... ON CONFLICT DO NOTHING
InsertIfAbsent(d, t, k, row) == IF Has(d, t, k) THEN d ELSE InsertRow(d, t, k, row)

\* INSERT INTO customer_mapping_table ... ON CONFLICT DO UPDATE SET the four
\* columns of the request
UpsertConfig(d, k, inp, secondary) ==
    IF Has(d, "customer_mapping_table", k)
    THEN [d EXCEPT !["customer_mapping_table"][k] =
            [@ EXCEPT !.csm_primary = inp.csm_primary,
                      !.csm_secondary = secondary,
                      !.no_of_environments = inp.no_of_environments,
                      !.no_of_months = inp.no_of_months]]
    ELSE InsertRow(d, "customer_mapping_table", k,
            ConfigRow(inp.csm_primary, secondary,
                      inp.no_of_environments, inp.no_of_months))

\* INSERT INTO final_computed_table SELECT COALESCE(domain columns, 0) ...
\* WHERE NOT EXISTS (the row)
InsertFinalFromDomains(d, k, inp, secondary) ==
    LET Part(t, zero) == IF Has(d, t, k) THEN d[t][k].upd ELSE zero
        AnyDomain == \E t \in DomainTables : Has(d, t, k)
    IN  IF Has(d, "final_computed_table", k) \/ ~AnyDomain
        THEN d
        ELSE InsertRow(d, "final_computed_table", k,
                FinalRow(inp.csm_primary, secondary,
                         Part("availability_table", AvZero),
                         Part("users_table", UsZero),
                         Part("storage_table", StZero),
                         Part("tickets_computed_table", TkZero)))

ConfigModeTx(d, k, inp, secondary, f) ==
    LET t0 == Begin(d)
        t1 == Exec(t0, f = 2, UpsertConfig(t0.data, k, inp, secondary))
        t2 == Exec(t1, f = 3,
                InsertIfAbsent(t1.data, "availability_table", k,
                               DomainRow(AvZero, AvZero)))
        t3 == Exec(t2, f = 4,
                InsertIfAbsent(t2.data, "users_table", k,
                               DomainRow(UsZero, UsZero)))
        t4 == Exec(t3, f = 5,
                InsertIfAbsent(t3.data, "storage_table", k,
                               DomainRow(StZero, StZero)))
        t5 == Exec(t4, f = 6,
                InsertIfAbsent(t4.data, "tickets_computed_table", k,
                               DomainRow(TkZero, TkZero)))
        t6 == Exec(t5, f = 7,
                InsertFinalFromDomains(t5.data, k, inp, secondary))
    IN  t6

insert_config(d, c, date, inp, f) ==
    LET secondary == IF inp.csm_secondary = "" THEN inp.csm_primary
                     ELSE inp.csm_secondary
    IN  IF inp.no_of_months = NonNumeric \/ inp.no_of_environments = NonNumeric
        THEN Outcome(d, "error")
        ELSE IF f = ConnFail \/ f = 1
        THEN Outcome(d, "error")
        ELSE IF HasConfig(d, c, date)
        THEN Outcome(d, "already_exists")
        ELSE LET tx == ConfigModeTx(d, <<c, date>>, inp, secondary, f)
             IN  Outcome(EditOutcome(tx, d),
                         IF tx.aborted THEN "error" ELSE "ok")

\* INSERT ... ON CONFLICT (customer_name, month_year) DO NOTHING left
\* cur.rowcount at 0: the aggregate row was there already.
NoConflict(d, k) == FALSE

AggregateConflict(d, k) == Has(d, "final_computed_table", k)

\* A plain INSERT raises on a key that is already there.
TableModeTx(d, k, inp, f) ==
    LET p == PayloadOf(inp)
        cfgrow == d["customer_mapping_table"][k]
        av == Project(p, AvZero)
        us == Project(p, UsZero)
        st == Project(p, StZero)
        tk == Project(p, TkZero)
        t0 == Begin(d)
        t1 == Exec(t0, f = 2,
                InsertRow(t0.data, "final_computed_table", k,
                    FinalRow(cfgrow.csm_primary, cfgrow.csm_secondary,
                             av, us, st, tk)))
        t2 == Exec(t1, f = 3 \/ Has(d, "availability_table", k),
                InsertRow(t1.data, "availability_table", k, DomainRow(av, av)))
        t3 == Exec(t2, f = 4 \/ Has(d, "users_table", k),
                InsertRow(t2.data, "users_table", k, DomainRow(us, us)))
        t4 == Exec(t3, f = 5 \/ Has(d, "storage_table", k),
                InsertRow(t3.data, "storage_table", k, DomainRow(st, st)))
        t5 == Exec(t4, f = 6 \/ Has(d, "tickets_computed_table", k),
                InsertRow(t4.data, "tickets_computed_table", k,
                          DomainRow(tk, tk)))
    IN  t5

insert_table(d, c, date, inp, f) ==
    IF f = ConnFail \/ f = 1
    THEN Outcome(d, "error")
    ELSE IF ~Has(d, "customer_mapping_table", <<c, date>>)
    THEN Outcome(d, "config_missing")
    ELSE IF f # 2 /\ AggregateConflict(d, <<c, date>>)
    THEN Outcome(d, "already_exists")
    ELSE LET tx == TableModeTx(d, <<c, date>>, inp, f)
         IN  Outcome(EditOutcome(tx, d), IF tx.aborted THEN "error" ELSE "ok")

Modes == {"config", "table", "other"}

insert_record(d, mode, c, raw, cinp, tinp, f) ==
    LET date == ParseInsertMonth(raw)
    IN  IF c = NoName
        THEN Outcome(d, "required")
        ELSE IF date = NoDate
        THEN Outcome(d, "invalid_month")
        ELSE IF mode = "config"
        THEN insert_config(d, c, date, cinp, f)
        ELSE IF mode = "table"
        THEN insert_table(d, c, date, tinp, f)
        ELSE Outcome(d, "invalid_mode")

(***************************************************************************)
(* delete_record                                                           *)
(***************************************************************************)
\* The DELETE statements of the five data tables only.
DeleteOrderDataOnly ==
    <<"final_computed_table", "availability_table", "users_table",
      "storage_table", "tickets_computed_table">>

\* The six DELETE statements, in the order of delete_statements.
DeleteOrder ==
    <<"final_computed_table", "availability_table", "users_table",
      "storage_table", "tickets_computed_table", "customer_mapping_table">>

\* WHERE clause of the DELETE on table t: exact key on the five data tables,
\* LOWER(TRIM(customer_name)) = LOWER(TRIM(%s)) on customer_mapping_table.
DeleteMatches(t, k, c, date) ==
    IF t = "customer_mapping_table"
    THEN LowerTrim(k[1]) = LowerTrim(c) /\ k[2] = date
    ELSE k[1] = c /\ k[2] = date

CountError == -1

\* The loop over delete_statements: every statement runs in its own
\* try/except inside the one transaction; acc.counts is deleted_counts.
RECURSIVE DeleteLoop(_, _, _, _, _)
DeleteLoop(acc, i, c, date, f) ==
    IF i > Len(DeleteOrder)
    THEN acc
    ELSE LET t == DeleteOrder[i]
             M(k) == DeleteMatches(t, k, c, date)
             tx == Exec(acc.tx, f = i + 2, DeleteWhere(acc.tx.data, t, M))
             n == IF tx.aborted THEN CountError
                  ELSE RowCount(acc.tx.data, t, M)
         IN  DeleteLoop([tx |-> tx, counts |-> [acc.counts EXCEPT ![t] = n]],
                        i + 1, c, date, f)

NoCounts == [t \in Tables |-> 0]

TotalDeleted(counts) ==
    LET N(t) == IF counts[t] = CountError THEN 0 ELSE counts[t]
    IN  N("final_computed_table") + N("availability_table") + N("users_table")
        + N("storage_table") + N("tickets_computed_table")
        + N("customer_mapping_table")

DeleteOutcome(d, res, counts) == [db |-> d, res |-> res, counts |-> counts]

\* f: 1 = the listing SELECT raises, 2 = the existence SELECT (or the
\* alternative-format SELECT after it) raises, 3..8 = the i-th DELETE raises,
\* 9 = conn.commit() raises.
delete_record(d, rawc, raw, f) ==
    LET c == Strip(rawc)
        date == ParseDeleteMonth(raw)
    IN  IF c = NoName
        THEN DeleteOutcome(d, "required", NoCounts)
        ELSE IF date = NoDate
        THEN DeleteOutcome(d, "invalid_month", NoCounts)
        ELSE IF f = ConnFail
        THEN DeleteOutcome(d, "conn_failed", NoCounts)
        ELSE IF f = 1 \/ f = 2
        THEN DeleteOutcome(d, "db_error", NoCounts)
        ELSE IF ~Has(d, "final_computed_table", <<c, date>>)
        THEN DeleteOutcome(d, "not_found", NoCounts)
        ELSE LET run == DeleteLoop([tx |-> Begin(d), counts |-> NoCounts],
                                   1, c, date, f)
             IN  IF f = 9
                 THEN DeleteOutcome(d, "db_error", run.counts)
                 ELSE DeleteOutcome(Commit(run.tx, d),
                        IF TotalDeleted(run.counts) <= 0 THEN "no_rows"
                        ELSE "ok",
                        run.counts)

(***************************************************************************)
(* save_config                                                             *)
(***************************************************************************)
StructuredFields ==
    {"thr_availability", "thr_users", "thr_storage", "indicator_colors",
     "circle_colors", "notes_availability", "notes_users", "notes_storage"}

NoteFields == {"notes_availability", "notes_users", "notes_storage"}

\* A structured field of the request: "json" is the text of a JSON
\* mapping, "scalar" the text of a JSON value that is no mapping (null, a
\* list), "bad" text that does not parse, "missing" absent or empty.
GoodFields == [x \in StructuredFields |-> "json"]

Classifications == {"Color1", "Color2", "Color3", "Invalid"}

\* A note set maps each classification to its note; a note is modelled by
\* the lengths of the lines that splitlines() yields.
NoteSet(c1, c2, c3, inv) ==
    [Color1 |-> c1, Color2 |-> c2, Color3 |-> c3, Invalid |-> inv]

ShortNoteSet == NoteSet(<<70, 70, 70>>, <<12>>, <<>>, <<70, 0, 70>>)

ShortNotes == [x \in NoteFields |-> ShortNoteSet]

SaveConfigBase ==
    [fields |-> GoodFields, notes |-> ShortNotes, csm_primary |-> "p2",
     csm_secondary |-> "s2", new_customer_uid |-> "", no_of_envs |-> 2,
     no_of_months |-> 2]

SaveConfigInputs ==
    { [SaveConfigBase EXCEPT !.new_customer_uid = "u1"],
      SaveConfigBase,
      [SaveConfigBase EXCEPT !.fields["thr_storage"] = "bad"],
      [SaveConfigBase EXCEPT !.fields["circle_colors"] = "missing"],
      [SaveConfigBase EXCEPT !.notes["notes_users"] =
            NoteSet(<<10>>, <<10, 10, 10, 10>>, <<>>, <<>>)],
      [SaveConfigBase EXCEPT !.notes["notes_storage"] =
            NoteSet(<<70>>, <<70>>, <<70>>, <<70, 71>>)],
      [SaveConfigBase EXCEPT !.fields["notes_availability"] = "scalar"] }

MaxNoteLines == 3
MaxNoteChars == 70

validate_notes_limits_AnyLineCount(notes) ==
    \A key \in DOMAIN notes :
        \A i \in 1..Len(notes[key]) : notes[key][i] <= MaxNoteChars

validate_notes_limits(notes) ==
    \A key \in DOMAIN notes :
        /\ Len(notes[key]) <= MaxNoteLines
        /\ \A i \in 1..Len(notes[key]) : notes[key][i] <= MaxNoteChars

safe_json_Lenient(v) == IF v = "missing" THEN "None" ELSE v

\* safe_json returns None for a field that is missing or does not parse.
safe_json(v) == IF v \in {"json", "scalar"} THEN v ELSE "None"

\* The three calls of validate_notes_limits, in their order; a note field
\* that is no mapping raises in data.items().
NoteOrder == <<"notes_availability", "notes_users", "notes_storage">>

RECURSIVE CheckNotes(_, _)
CheckNotes(inp, i) ==
    IF i > Len(NoteOrder)
    THEN "valid"
    ELSE IF inp.fields[NoteOrder[i]] = "scalar"
    THEN "unhandled"
    ELSE IF ~validate_notes_limits(inp.notes[NoteOrder[i]])
    THEN "rejected"
    ELSE CheckNotes(inp, i + 1)

UidArrayReplacing(existing_uid_list, new_uid) ==
    IF new_uid # "" THEN <<new_uid>> ELSE existing_uid_list

\* existing_uid_list.append(new_uid) when an identifier is given
UidArray(existing_uid_list, new_uid) ==
    IF new_uid # "" THEN Append(existing_uid_list, new_uid)
    ELSE existing_uid_list

SaveConfigTx(d, k, inp, f) ==
    LET Here(x) == x = k
        cfgrow == d["customer_mapping_table"][k]
        old == IF k \in Keys /\ Has(d, "customer_mapping_table", k)
               THEN cfgrow.customer_uid ELSE <<>>
        uid == UidArray(old, inp.new_customer_uid)
        SetFin(r) == [r EXCEPT !.csm_primary = inp.csm_primary,
                               !.csm_secondary = inp.csm_secondary]
        SetCfg(r) == [r EXCEPT !.csm_primary = inp.csm_primary,
                               !.csm_secondary = inp.csm_secondary,
                               !.customer_uid = uid,
                               !.no_of_environments = inp.no_of_envs,
                               !.no_of_months = inp.no_of_months,
                               !.structured =
                                   [fields |-> inp.fields, notes |-> inp.notes]]
        t0 == Begin(d)
        t1 == Exec(t0, f = 1, t0.data)
        t2 == Exec(t1, f = 2,
                   UpdateWhere(t1.data, "final_computed_table", Here, SetFin))
        t3 == Exec(t2, f = 3,
                   UpdateWhere(t2.data, "customer_mapping_table", Here, SetCfg))
    IN  t3

\* f: 1 = the SELECT of customer_uid raises, 2 = the UPDATE of
\* final_computed_table raises (both outside the try block: the request
\* ends in an unhandled exception), 3 = the UPDATE of customer_mapping_table
\* raises (rolled back and reported).
save_config(d, c, raw, inp, f) ==
    LET date == ParseConfigMonth(raw)
    IN  IF date = NoDate
        THEN Outcome(d, "invalid_month")
        ELSE IF \E x \in StructuredFields : safe_json(inp.fields[x]) = "None"
        THEN Outcome(d, "rejected")
        ELSE IF CheckNotes(inp, 1) # "valid"
        THEN Outcome(d, CheckNotes(inp, 1))
        ELSE IF f = ConnFail \/ f = 1 \/ f = 2
        THEN Outcome(d, "unhandled")
        ELSE LET tx == SaveConfigTx(d, <<c, date>>, inp, f)
             IN  Outcome(EditOutcome(tx, d),
                         IF tx.aborted THEN "error" ELSE "ok")

(***************************************************************************)
(* Threshold ladders of generate_presentation.  A rule set maps Color1,    *)
(* Color2, Color3 to cutoffs; values and cutoffs are percentages.          *)
(***************************************************************************)
Cutoffs == {70, 80, 90}

Percentages == {50, 70, 75, 80, 85, 90, 95}

RuleSets == [Color1 : Cutoffs, Color2 : Cutoffs, Color3 : Cutoffs]

\* Slide 2 (availability): one value, Color1 first.
ClassifyAvailabilityStrict(v, rules) ==
    IF v > rules.Color1 THEN "Color1"
    ELSE IF v > rules.Color2 THEN "Color2"
    ELSE IF v > rules.Color3 THEN "Color3"
    ELSE "Invalid"

ClassifyAvailability(v, rules) ==
    IF v >= rules.Color1 THEN "Color1"
    ELSE IF v >= rules.Color2 THEN "Color2"
    ELSE IF v >= rules.Color3 THEN "Color3"
    ELSE "Invalid"

\* Slides 3 and 4 (licenses, storage): prod and test %Used, Color3 first.
ClassifyUsageProdOnly(used_val, used_test, rules) ==
    IF used_val >= rules.Color3 THEN "Color3"
    ELSE IF used_val >= rules.Color2 THEN "Color2"
    ELSE IF used_val >= rules.Color1 THEN "Color1"
    ELSE "Invalid"

ClassifyUsage(used_val, used_test, rules) ==
    IF used_val >= rules.Color3 \/ used_test >= rules.Color3 THEN "Color3"
    ELSE IF used_val >= rules.Color2 \/ used_test >= rules.Color2 THEN "Color2"
    ELSE IF used_val >= rules.Color1 \/ used_test >= rules.Color1 THEN "Color1"
    ELSE "Invalid"

(***************************************************************************)
(* State machine.  db is the committed content of the six tables, last     *)
(* the request served last and its response, nops the number of requests   *)
(* still to serve.                                                         *)
(***************************************************************************)
NoResult == Result("none", NoName, NoMonth, "none", NoInput)

NoCls == [none |-> TRUE]

Init ==
    /\ db = EmptyDb
    /\ last = NoResult
    /\ nops = MaxOps
    /\ cls = NoCls

\* A store filled before the application starts: every customer has one
\* of four histories.  The rows of a key are complete (configuration,
\* aggregate and the four domain rows, which agree) or pending
\* (configuration only, as listed by get_customers_pending_tables).
\*   none        no rows
\*   complete    every month complete
\*   pending     every month configured, the last one pending
\*   configured  the first month pending, no other rows
Profiles == {"none", "complete", "pending", "configured"}

LoadedAv(m) ==
    [updated_availability |-> DivideBy100(90 + m),
     updated_target |-> DivideBy100(99)]

LoadedUs(m) ==
    [updated_prod_limit |-> 50, updated_prod_used |-> 40 + m,
     updated_test_limit |-> 30, updated_test_used |-> 20 + m,
     updated_dev_limit |-> 9, updated_dev_used |-> 5 + m]

LoadedSt(m) ==
    [updated_prod_target_storage_gb |-> 500,
     updated_prod_storage_gb |-> 400 + m,
     updated_test_target_storage_gb |-> 300,
     updated_test_storage_gb |-> 200 + m,
     updated_dev_target_storage_gb |-> 90,
     updated_dev_storage_gb |-> 50 + m]

LoadedTk(m) ==
    [updated_tickets_opened |-> 60 + m, updated_tickets_closed |-> 61,
     updated_tickets_backlog |-> 62,
     updated_current_opened_tickets |-> 63,
     updated_current_closed_tickets |-> 64,
     updated_current_backlog_tickets |-> 65]

HasConfigIn(profile, m) ==
    \/ profile \in {"complete", "pending"}
    \/ profile = "configured" /\ m = 1

HasDataIn(profile, m) ==
    \/ profile = "complete"
    \/ profile = "pending" /\ m < MaxMonth

LoadedRow(t, m) ==
    CASE t = "customer_mapping_table" ->
            [ConfigRow("p0", "s0", 3, 2) EXCEPT !.customer_uid = <<"u0">>]
      [] t = "final_computed_table" ->
            FinalRow("p0", "s0", LoadedAv(m), LoadedUs(m), LoadedSt(m),
                     LoadedTk(m))
      [] t = "availability_table" -> DomainRow(LoadedAv(m), LoadedAv(m))
      [] t = "users_table" -> DomainRow(LoadedUs(m), LoadedUs(m))
      [] t = "storage_table" -> DomainRow(LoadedSt(m), LoadedSt(m))
      [] t = "tickets_computed_table" -> DomainRow(LoadedTk(m), LoadedTk(m))

LoadedDb(prof) ==
    [t \in Tables |->
        [k \in Keys |->
            LET m == k[2] \div 100
                present == IF t = "customer_mapping_table"
                           THEN HasConfigIn(prof[k[1]], m)
                           ELSE HasDataIn(prof[k[1]], m)
            IN  IF present /\ k[2] = MkDate(m, 1) THEN LoadedRow(t, m)
                ELSE NoRow]]

\* The customer whose name has a leading blank starts without rows.
LoadedStores ==
    {LoadedDb(prof) : prof \in {p \in [Names -> Profiles] :
        /\ p[NameUpperA] # "configured"
        /\ p[NamePaddedA] = "none"}}

InitLoaded ==
    /\ db \in LoadedStores
    /\ last = NoResult
    /\ nops = MaxOpsLoaded
    /\ cls = NoCls

\* The stores the failing requests are sent to: one customer with
\* complete or pending rows, next to one with complete rows and one
\* without.
FaultyStores ==
    {LoadedDb(prof) : prof \in {p \in [Names -> Profiles] :
        /\ p[NameA] \in {"complete", "pending"}
        /\ p[NameUpperA] = "complete"
        /\ p[NamePaddedA] = "none"}}

InitFaulty ==
    /\ db \in FaultyStores
    /\ last = NoResult
    /\ nops = MaxOpsFaulty
    /\ cls = NoCls

Serve(op, c, raw, inp, o) ==
    /\ nops > 0
    /\ nops' = nops - 1
    /\ db' = o.db
    /\ last' = Result(op, c, raw, o.res, inp)
    /\ UNCHANGED cls

\* The failure inputs of a request with n statements: all of them, or none
\* when the database is taken to work.  A request that is turned down
\* before it connects has no failure input.
Failures(n, inject, connects) ==
    IF inject /\ connects THEN FailPoints(n) ELSE {0}

Numeric(inp) == \A x \in DOMAIN inp : inp[x] # NonNumeric

DoSaveAvailability(inject) ==
    \E c \in Names, raw \in EditMonthInputs, inp \in AvailInputs :
      \E f \in Failures(2, inject,
                        Numeric(inp) /\ inp.availability <= 100) :
        Serve("save_availability", c, raw, inp,
              save_availability(db, c, raw, inp, f))

DoSaveUsers(inject) ==
    \E c \in Names, raw \in EditMonthInputs, inp \in UsersInputs :
      \E f \in Failures(4, inject, Numeric(inp)) :
        LET o == save_users(db, c, raw, inp, f)
        IN  /\ nops > 0
            /\ nops' = nops - 1
            /\ db' = o.db
            /\ last' = [Result("save_users", c, raw, o.res, inp)
                            EXCEPT !.warnings = o.warnings]
            /\ UNCHANGED cls

DoSaveStorage(inject) ==
    \E c \in Names, raw \in EditMonthInputs, inp \in StorageInputs :
      \E f \in Failures(4, inject, TRUE) :
        Serve("save_storage", c, raw, inp, save_storage(db, c, raw, inp, f))

DoSaveTickets(inject) ==
    \E c \in Names, raw \in EditMonthInputs, inp \in TicketsInputs :
      \E f \in Failures(2, inject, Numeric(inp)) :
        Serve("save_tickets", c, raw, inp, save_tickets(db, c, raw, inp, f))

\* The requests sent while the database may fail pass validation.
FaultyConfigInputs ==
    {inp \in SaveConfigInputs :
        inp.fields = GoodFields /\ inp.notes = ShortNotes}

DoSaveConfig(inject) ==
    \E c \in Names, raw \in EditMonthInputs,
       inp \in (IF inject THEN FaultyConfigInputs ELSE SaveConfigInputs) :
      \E f \in Failures(3, inject,
                        raw.fmt = "ymd" /\ inp.fields = GoodFields
                        /\ inp.notes = ShortNotes) :
        Serve("save_config", c, raw, inp, save_config(db, c, raw, inp, f))

DoInsertConfig(inject) ==
    \E c \in NameInputs, raw \in MonthInputs, inp \in ConfigInputs :
      \E f \in Failures(7, inject,
                        c # NoName /\ raw.fmt # "bad"
                        /\ inp.no_of_months # NonNumeric) :
        Serve("insert_config", c, raw, inp,
              insert_record(db, "config", c, raw, inp, NoInput, f))

DoInsertTable(inject) ==
    \E c \in NameInputs, raw \in MonthInputs, inp \in TableInputs :
      \E f \in Failures(6, inject, c # NoName /\ raw.fmt # "bad") :
        Serve("insert_table", c, raw, inp,
              insert_record(db, "table", c, raw, NoInput, inp, f))

DoInsertOtherMode ==
    \E c \in NameInputs, raw \in MonthInputs :
        Serve("insert_other", c, raw, NoInput,
              insert_record(db, "other", c, raw, NoInput, NoInput, 0))

DoDeleteRecord(inject) ==
    \E c \in NameInputs, raw \in MonthInputs :
      \E f \in Failures(9, inject, Strip(c) # NoName /\ raw.fmt # "bad") :
        LET o == delete_record(db, c, raw, f)
        IN  Serve("delete_record", c, raw, o.counts, o)

\* Requests against a database that works.
SaveAvailability == DoSaveAvailability(FALSE)
SaveUsers == DoSaveUsers(FALSE)
SaveStorage == DoSaveStorage(FALSE)
SaveTickets == DoSaveTickets(FALSE)
SaveConfig == DoSaveConfig(FALSE)
InsertConfig == DoInsertConfig(FALSE)
InsertTable == DoInsertTable(FALSE)
InsertOtherMode == DoInsertOtherMode
DeleteRecord == DoDeleteRecord(FALSE)

Next ==
    \/ SaveAvailability
    \/ SaveUsers
    \/ SaveStorage
    \/ SaveTickets
    \/ SaveConfig
    \/ InsertConfig
    \/ InsertTable
    \/ InsertOtherMode
    \/ DeleteRecord

\* Requests during which the connection or any one statement may fail.
SaveAvailabilityF == DoSaveAvailability(TRUE)
SaveUsersF == DoSaveUsers(TRUE)
SaveStorageF == DoSaveStorage(TRUE)
SaveTicketsF == DoSaveTickets(TRUE)
SaveConfigF == DoSaveConfig(TRUE)
InsertConfigF == DoInsertConfig(TRUE)
InsertTableF == DoInsertTable(TRUE)
DeleteRecordF == DoDeleteRecord(TRUE)

NextFaulty ==
    \/ SaveAvailabilityF
    \/ SaveUsersF
    \/ SaveStorageF
    \/ SaveTicketsF
    \/ SaveConfigF
    \/ InsertConfigF
    \/ InsertTableF
    \/ InsertOtherMode
    \/ DeleteRecordF

(***************************************************************************)
(* The slide generator classifying the values of one report: cls holds     *)
(* the values, the rule set and the color keys chosen so far.              *)
(***************************************************************************)
InitClassify ==
    /\ db = EmptyDb
    /\ last = NoResult
    /\ nops = 0
    /\ \E v \in Percentages, w \in Percentages, r \in RuleSets :
          cls = [value |-> v, test |-> w, rules |-> r,
                 slide2 |-> "none", slide3 |-> "none", slide4 |-> "none"]

ColorSlide2 ==
    /\ cls.slide2 = "none"
    /\ cls' = [cls EXCEPT !.slide2 = ClassifyAvailability(cls.value, cls.rules)]
    /\ UNCHANGED <<db, last, nops>>

ColorSlide3 ==
    /\ cls.slide3 = "none"
    /\ cls' = [cls EXCEPT
                 !.slide3 = ClassifyUsage(cls.value, cls.test, cls.rules)]
    /\ UNCHANGED <<db, last, nops>>

ColorSlide4 ==
    /\ cls.slide4 = "none"
    /\ cls' = [cls EXCEPT
                 !.slide4 = ClassifyUsage(cls.value, cls.test, cls.rules)]
    /\ UNCHANGED <<db, last, nops>>

NextClassify == ColorSlide2 \/ ColorSlide3 \/ ColorSlide4

SpecClassify == InitClassify /\ [][NextClassify]_vars

\* Every sequence of requests from the empty database.
Spec == Init /\ [][Next]_vars

\* Requests against a store that was filled beforehand.
SpecLoaded == InitLoaded /\ [][Next]_vars

\* The same, with a connection or a statement that may fail.
SpecFaulty == InitFaulty /\ [][NextFaulty]_vars

(***************************************************************************)
(* Report assembly: generate_ppt with fetch_data and                       *)
(* prepare_data_dictionary.  The store of a report request spans           *)
(* MaxReportMonth months; its rows lie on the first day of a month and,    *)
(* in one history, in the middle of a month (insert_record keeps the day   *)
(* of a YYYY-MM-DD input).  After a request cls holds what was loaded and  *)
(* the chart blocks that were assembled.                                   *)
(***************************************************************************)
MaxReportMonth == 7
MaxPermuted == 3

ReportDays == {1, 15}
ReportDates == {MkDate(m, d) : m \in 1..MaxReportMonth, d \in ReportDays}
ReportKeys == Names \X ReportDates

ReportMonthInputs ==
    [fmt : {"ymd"}, m : 1..MaxReportMonth, d : ReportDays] \cup {YearMonth}

\* generate_ppt hands the text to strptime(month_year, '%Y-%m-%d').
ReportMonth(raw) ==
    IF raw.fmt = "ymd" THEN MkDate(raw.m, raw.d) ELSE NoDate

\* The availability of the months of a history, in percent.
AvailabilityHistory == <<92, 88, 95, 91, 97, 85, 90, 93>>

ReportAv(date) ==
    LET m == date \div 100
    IN  [updated_availability |->
             DivideBy100(IF date % 100 = 1
                         THEN AvailabilityHistory[
                                  ((m - 1) % Len(AvailabilityHistory)) + 1]
                         ELSE 80),
         updated_target |-> DivideBy100(99)]

ReportFinalRow(date) ==
    LET m == date \div 100
    IN  FinalRow("p0", "s0", ReportAv(date), LoadedUs(m), LoadedSt(m),
                 LoadedTk(m))

\* The history of one customer: the window length and the number of
\* environments of its configuration rows, whether save_config has filled
\* their structured fields, and the dates of its configuration and of its
\* aggregate rows.
History(w, envs, saved, cfg, fin) ==
    [w |-> w, envs |-> envs, saved |-> saved, cfg |-> cfg, fin |-> fin]

ReportConfigRow(h) ==
    [ConfigRow("p0", "s0", h.envs, h.w) EXCEPT
        !.structured = IF h.saved
                       THEN [fields |-> GoodFields, notes |-> ShortNotes]
                       ELSE [null |-> TRUE]]

FirstOf(ms) == {MkDate(m, 1) : m \in ms}

AllMonths == 1..MaxReportMonth

Histories ==
    {History(3, 3, TRUE, FirstOf(AllMonths), FirstOf(AllMonths)),
     History(1, 1, TRUE, FirstOf(AllMonths), FirstOf(AllMonths)),
     History(2, 4, TRUE, FirstOf(AllMonths),
             FirstOf(1..(MaxReportMonth - 1))),
     History(3, 2, FALSE, FirstOf({1}), {}),
     History(2, 3, TRUE, FirstOf(1..3), FirstOf(AllMonths)),
     History(3, 2, TRUE, FirstOf(AllMonths), FirstOf(1..3)),
     History(3, 3, TRUE, FirstOf(AllMonths) \cup {MkDate(2, 15)},
             FirstOf(AllMonths) \cup {MkDate(2, 15)}),
     History(0, 2, TRUE, FirstOf(AllMonths), FirstOf(AllMonths)),
     History(3, 2, FALSE, FirstOf(AllMonths), FirstOf(AllMonths)),
     History(3, 2, TRUE, {}, {})}

ReportDb(hist) ==
    [t \in {"customer_mapping_table", "final_computed_table"} |->
        [k \in ReportKeys |->
            IF t = "customer_mapping_table"
            THEN IF k[2] \in hist[k[1]].cfg
                 THEN ReportConfigRow(hist[k[1]]) ELSE NoRow
            ELSE IF k[2] \in hist[k[1]].fin
                 THEN ReportFinalRow(k[2]) ELSE NoRow]]

\* The customer whose name has a leading blank has no rows.
ReportStores ==
    {ReportDb(hist) : hist \in {h \in [Names -> Histories] :
        h[NamePaddedA] = History(3, 2, TRUE, {}, {})}}

\* end_date - relativedelta(months = n), for a day every month has.
SubtractMonths(date, n) == date - 100 * n

DefaultMonths == 6

\* SELECT no_of_months ... WHERE customer_name = %s AND month_year = %s;
\* 6 when the query returns no row.
WindowLength(d, c, end_date) ==
    LET row == d["customer_mapping_table"][<<c, end_date>>]
    IN  IF row = NoRow THEN DefaultMonths ELSE row.no_of_months

\* month_year BETWEEN lo AND hi, without the lower end.
BetweenAfter(x, lo, hi) == lo < x /\ x <= hi

\* month_year BETWEEN lo AND hi.
Between(x, lo, hi) == lo <= x /\ x <= hi

\* SELECT * FROM t WHERE customer_name = %s AND month_year BETWEEN %s AND %s:
\* the keys of the rows returned.
SelectWindow(d, t, c, start_date, end_date) ==
    {k \in ReportKeys :
        /\ k[1] = c
        /\ d[t][k] # NoRow
        /\ Between(k[2], start_date, end_date)}

fetch_data(d, c, end_date) ==
    LET no_of_months == WindowLength(d, c, end_date)
        start_date == SubtractMonths(end_date, no_of_months - 1)
        mapping == SelectWindow(d, "customer_mapping_table", c, start_date,
                                end_date)
        final == SelectWindow(d, "final_computed_table", c, start_date,
                              end_date)
    IN  [no_of_months |-> no_of_months, start_date |-> start_date,
         customer_mapping_df |-> mapping, final_computed_df |-> final,
         res |-> IF mapping = {} \/ final = {} THEN "no_data" ELSE "ok"]

\* sorted(): the rows of a set, ascending by month_year.
RECURSIVE Ascending(_)
Ascending(S) ==
    IF S = {} THEN <<>>
    ELSE LET least == CHOOSE x \in S : \A y \in S : x[2] <= y[2]
         IN  <<least>> \o Ascending(S \ {least})

Rotate(s, r) == [i \in 1..Len(s) |-> s[((i + r - 1) % Len(s)) + 1]]

Reverse(s) == [i \in 1..Len(s) |-> s[Len(s) + 1 - i]]

\* The query has no ORDER BY: the rows of final_computed_df arrive in any
\* order.  Up to MaxPermuted rows every order is enumerated, for more rows
\* every rotation of the ascending and of the descending listing.
LoadOrders(S) ==
    LET n == Cardinality(S)
        asc == Ascending(S)
    IN  IF n <= MaxPermuted
        THEN {s \in [1..n -> S] : \A i, j \in 1..n : i # j => s[i] # s[j]}
        ELSE {Rotate(asc, r) : r \in 0..(n - 1)}
             \cup {Rotate(Reverse(asc), r) : r \in 0..(n - 1)}

\* final_computed_df['month_year'].unique()
Unique(df) == {df[i] : i \in DOMAIN df}

\* final_computed_df.sort_values(by='month_year'): a frame holds each key
\* once, so the sorted frame lists its rows ascending.
SortValues(df) == Ascending(Unique(df))

MonthAbbr ==
    <<"Jan", "Feb", "Mar", "Apr", "May", "Jun", "Jul", "Aug", "Sep", "Oct",
      "Nov", "Dec">>

\* d.strftime('%b-%y'); month 1 is January of year 0.
Strftime(date) ==
    LET m == (date \div 100) - 1
    IN  [b |-> MonthAbbr[(m % 12) + 1], y |-> (m \div 12) % 100]

MonthLabels(df) ==
    LET a == Ascending(Unique(df))
    IN  [i \in DOMAIN a |-> Strftime(a[i][2])]

\* val * 100 of a stored fraction.
Times100(x) == x.hundredths

availability_chart_data(d, c, df) ==
    LET s == SortValues(df)
        row(i) == d["final_computed_table"][s[i]]
    IN  [Months |-> MonthLabels(df),
         Availability |->
             [i \in DOMAIN s |-> Times100(row(i).av.updated_availability)],
         SLA |-> [i \in DOMAIN s |-> Times100(row(i).av.updated_target)]]

\* The dev tier is shown from three environments on.
IncludesDevFromThree(envs) == envs >= 3

\* current_customer_data['no_of_environments'] == 3
IncludesDev(envs) == envs = 3

\* round(num / den) of Python 3: to the nearest integer, a tie to the even
\* one.
RoundHalfEven(num, den) ==
    LET q == num \div den
        r == num % den
    IN  IF 2 * r < den THEN q
        ELSE IF 2 * r > den THEN q + 1
        ELSE IF q % 2 = 0 THEN q ELSE q + 1

\* One row of the license table: tier, licenses, count, remaining, %used.
LicenseRow(tier, licenses, used) ==
    <<tier, licenses, used, licenses - used,
      IF licenses # 0 THEN RoundHalfEven(used * 100, licenses) ELSE 0>>

user_license_rows(us, envs) ==
    <<LicenseRow("Prod", us.updated_prod_limit, us.updated_prod_used),
      LicenseRow("Test", us.updated_test_limit, us.updated_test_used)>>
    \o (IF IncludesDev(envs)
        THEN <<LicenseRow("Dev", us.updated_dev_limit, us.updated_dev_used)>>
        ELSE <<>>)

\* One row of the storage table: tier, used, contract, free, %used and
\* %free in tenths of a percent (round(x, 1)).
StorageRow(tier, used, contract) ==
    <<tier, used, contract, contract - used,
      IF contract # 0 THEN RoundHalfEven(used * 1000, contract) ELSE 0,
      IF contract # 0 THEN RoundHalfEven((contract - used) * 1000, contract)
      ELSE 0>>

storage_utilization_rows(st, envs) ==
    <<StorageRow("Prod(GB)", st.updated_prod_storage_gb,
                 st.updated_prod_target_storage_gb),
      StorageRow("Test(GB)", st.updated_test_storage_gb,
                 st.updated_test_target_storage_gb)>>
    \o (IF IncludesDev(envs)
        THEN <<StorageRow("Dev(GB)", st.updated_dev_storage_gb,
                          st.updated_dev_target_storage_gb)>>
        ELSE <<>>)

\* A series the chart does not carry.
NoSeries == <<>>

user_counts_chart_data(d, c, df, envs) ==
    LET s == SortValues(df)
        row(i) == d["final_computed_table"][s[i]]
    IN  [Months |-> MonthLabels(df),
         Prod |-> [i \in DOMAIN s |-> row(i).us.updated_prod_used],
         Test |-> [i \in DOMAIN s |-> row(i).us.updated_test_used],
         Dev |-> IF IncludesDev(envs)
                 THEN [i \in DOMAIN s |-> row(i).us.updated_dev_used]
                 ELSE NoSeries,
         Licenses |-> [i \in DOMAIN s |-> row(i).us.updated_prod_limit]]

\* The check of the current month, without the aggregate row.
CurrentMonthMissingConfigOnly(mapping, df, date) ==
    {k \in mapping : k[2] = date} = {}

\* current_customer_df.empty or current_computed_df.empty
CurrentMonthMissing(mapping, df, date) ==
    \/ {k \in mapping : k[2] = date} = {}
    \/ {k \in Unique(df) : k[2] = date} = {}

NoData == [none |-> TRUE]

\* Slide 5: the backlog of the row of final_computed_df one month before
\* the current one, 0 when the frame holds no such row.
backlog_active_prev(d, c, date, df) ==
    LET previous_month == SubtractMonths(date, 1)
        prev_row == {k \in Unique(df) : k[2] = previous_month}
    IN  IF prev_row = {} THEN 0
        ELSE d["final_computed_table"][CHOOSE k \in prev_row : TRUE]
                 .tk.updated_tickets_backlog

prepare_data_dictionary(d, c, date, mapping, df) ==
    IF CurrentMonthMissing(mapping, df, date)
    THEN [res |-> "current_month_missing", data |-> NoData]
    ELSE IF \E t \in {"customer_mapping_table", "final_computed_table"} :
                ~Has(d, t, <<c, date>>)
    THEN \* .iloc[0] of an empty frame raises
         [res |-> "error", data |-> NoData]
    ELSE LET envs == d["customer_mapping_table"][<<c, date>>].no_of_environments
             current == d["final_computed_table"][<<c, date>>]
         IN  [res |-> "ok",
              data |-> [slide2 |-> availability_chart_data(d, c, df),
                        slide3 |-> user_counts_chart_data(d, c, df, envs),
                        license_rows |-> user_license_rows(current.us, envs),
                        storage_rows |->
                            storage_utilization_rows(current.st, envs),
                        backlog_active_prev |->
                            backlog_active_prev(d, c, date, df)]]

\* generate_presentation reads the rule sets of the current configuration
\* row; color_rules["Color1"] raises when save_config never stored them.
generate_presentation(d, c, date) ==
    IF d["customer_mapping_table"][<<c, date>>].structured = [null |-> TRUE]
    THEN "error" ELSE "document"

NotLoaded ==
    [no_of_months |-> 0, start_date |-> NoDate, customer_mapping_df |-> {},
     final_computed_df |-> <<>>, loaded |-> FALSE, data |-> NoData]

\* conn: whether get_db_connection_for_ppt returned a connection; order:
\* the order in which the rows of final_computed_df arrive.
generate_ppt(d, c, raw, conn, order) ==
    LET date == ReportMonth(raw)
        f == fetch_data(d, c, date)
        loaded == [no_of_months |-> f.no_of_months,
                   start_date |-> f.start_date,
                   customer_mapping_df |-> f.customer_mapping_df,
                   final_computed_df |-> order, loaded |-> TRUE,
                   data |-> NoData]
        p == prepare_data_dictionary(d, c, date, f.customer_mapping_df, order)
    IN  IF ~conn THEN [res |-> "connection_failed", report |-> NotLoaded]
        ELSE IF date = NoDate THEN [res |-> "error", report |-> NotLoaded]
        ELSE IF f.res # "ok" THEN [res |-> f.res, report |-> loaded]
        ELSE IF p.res # "ok" THEN [res |-> p.res, report |-> loaded]
        ELSE [res |-> generate_presentation(d, c, date),
              report |-> [loaded EXCEPT !.data = p.data]]

GeneratePpt ==
    /\ nops > 0
    /\ \E c \in Names, raw \in ReportMonthInputs, conn \in BOOLEAN :
          \E order \in (IF conn /\ ReportMonth(raw) # NoDate
                        THEN LoadOrders(
                                 fetch_data(db, c, ReportMonth(raw))
                                     .final_computed_df)
                        ELSE {<<>>}) :
             LET o == generate_ppt(db, c, raw, conn, order)
             IN  /\ last' = Result("generate_ppt", c, raw, o.res, NoInput)
                 /\ cls' = o.report
    /\ nops' = nops - 1
    /\ UNCHANGED db

InitReport ==
    /\ db \in ReportStores
    /\ last = NoResult
    /\ nops = 1
    /\ cls = NoCls

NextReport == GeneratePpt

\* One report request against a store that was filled beforehand.
SpecReport == InitReport /\ [][NextReport]_vars

(***************************************************************************)
(* attach_comment and the audit_logs table.  The rows of audit_logs are    *)
(* written by the database; the application only attaches comments.  In    *)
(* this specification db is the audit log, a sequence indexed by           *)
(* audit_id, and cls holds the audit_id the last request selected.         *)
(***************************************************************************)
MaxAudit == 3
MaxOpsAudit == 2

SqlNull == [null |-> TRUE]

Text(s) == [text |-> s]

\* primary_key_value holds the month under the key month_year or month, as
\* the text of a date or of a timestamp.
AuditEntry(t, op, c, key, m, form, at, comment) ==
    [table_name |-> t, operation_type |-> op, customer_name |-> c,
     month_key |-> key, month_text |-> [date |-> MkDate(m, 1), form |-> form],
     changed_at |-> at, comment |-> comment, section_name |-> SqlNull]

AuditEntries ==
    {AuditEntry("users_table", "UPDATE", NameA, "month_year", 1, "date", 1,
                SqlNull),
     AuditEntry("users_table", "UPDATE", NameA, "month_year", 1, "timestamp",
                2, Text("")),
     AuditEntry("users_table", "UPDATE", NameA, "month_year", 1, "date", 2,
                Text("c0")),
     AuditEntry("users_table", "UPDATE", NameUpperA, "month_year", 1, "date",
                3, SqlNull),
     AuditEntry("customer_mapping_table", "INSERT", NameA, "month", 2,
                "date", 1, SqlNull)}

AuditLogs == [1..MaxAudit -> AuditEntries]

AttachBase ==
    [customer |-> NameA, month |-> [fmt |-> "ymd", m |-> 1, d |-> 1],
     conn |-> TRUE,
     inp |-> [section |-> "users", comment |-> Text("c1"),
              operation |-> "UPDATE"]]

\* The attach_comment requests: one that names the entries of the first
\* month of a customer, and requests that differ from it in one respect.
AttachRequests ==
    {AttachBase,
     [AttachBase EXCEPT !.inp.comment = Text("c2")],
     [AttachBase EXCEPT !.inp.comment = Text("")],
     [AttachBase EXCEPT !.inp.comment = SqlNull],
     [AttachBase EXCEPT !.inp.section = "Users"],
     [AttachBase EXCEPT !.inp.section = "licenses"],
     [AttachBase EXCEPT !.inp.operation = "DELETE"],
     [AttachBase EXCEPT !.customer = NameUpperA],
     [AttachBase EXCEPT !.customer = NoName],
     [AttachBase EXCEPT !.month = YearMonth],
     [AttachBase EXCEPT !.conn = FALSE]}
    \cup {[AttachBase EXCEPT !.month.m = m] : m \in 1..MaxMonth}
    \cup {[AttachBase EXCEPT !.month.m = m, !.inp.section = "config",
                             !.inp.operation = "INSERT"] : m \in 1..MaxMonth}

\* if not (customer and month and section and comment and op_type)
Falsy(v) == v = SqlNull \/ v = Text("")

\* TABLE_MAP.get(section.lower())
TableOfSection(section) ==
    CASE section \in {"availability", "Availability"} -> "availability_table"
      [] section \in {"users", "Users"} -> "users_table"
      [] section \in {"storage", "Storage"} -> "storage_table"
      [] section \in {"tickets", "Tickets"} -> "tickets_computed_table"
      [] section \in {"config", "Config"} -> "customer_mapping_table"
      [] OTHER -> "None"

\* text LIKE '<date>%': the text starts with the ISO form of the date.
LikeDate(text, date) == text.date = date

\* comment IS NULL OR comment = '', for a comment of any text.
EmptyCommentOrAny(comment) == TRUE

\* comment IS NULL OR comment = ''
EmptyComment(comment) == comment = SqlNull \/ comment = Text("")

\* The rows the SELECT of attach_comment matches.
AuditMatches(log, t, op, c, date) ==
    {id \in DOMAIN log :
        /\ log[id].table_name = t
        /\ log[id].operation_type = op
        /\ log[id].customer_name = c
        /\ log[id].month_key \in {"month_year", "month"}
        /\ LikeDate(log[id].month_text, date)
        /\ EmptyComment(log[id].comment)}

\* ORDER BY changed_at DESC LIMIT 1: any row with the latest changed_at.
MostRecent(log, ids) ==
    {id \in ids : \A other \in ids : log[other].changed_at <= log[id].changed_at}

AttachOutcome(log, res, audit_id) ==
    [db |-> log, res |-> res, audit_id |-> audit_id]

NoAuditId == 0

\* conn: whether get_db_connection() returned a connection; pick: the row
\* the SELECT returned when several are the most recent.
attach_comment(log, c, raw, inp, conn, pick) ==
    LET date == ParseConfigMonth(raw)
        t == TableOfSection(inp.section)
    IN  IF c = NoName \/ Falsy(inp.comment)
        THEN AttachOutcome(log, "missing_fields", NoAuditId)
        ELSE IF date = NoDate
        THEN AttachOutcome(log, "invalid_month", NoAuditId)
        ELSE IF t = "None"
        THEN AttachOutcome(log, "invalid_section", NoAuditId)
        ELSE IF ~conn THEN AttachOutcome(log, "error", NoAuditId)
        ELSE IF pick = NoAuditId
        THEN AttachOutcome(log, "not_found", NoAuditId)
        ELSE AttachOutcome(
                 [log EXCEPT ![pick].comment = inp.comment,
                             ![pick].section_name = Text(inp.section)],
                 "ok", pick)

\* The rows the SELECT may return for a request: NoAuditId when it matches
\* none or is not reached.
AttachPicks(log, c, raw, inp) ==
    LET date == ParseConfigMonth(raw)
        ids == IF date = NoDate THEN {}
               ELSE AuditMatches(log, TableOfSection(inp.section),
                                 inp.operation, c, date)
    IN  IF ids = {} THEN {NoAuditId} ELSE MostRecent(log, ids)

AttachComment ==
    /\ nops > 0
    /\ \E req \in AttachRequests :
          \E pick \in AttachPicks(db, req.customer, req.month, req.inp) :
             LET o == attach_comment(db, req.customer, req.month, req.inp,
                                     req.conn, pick)
             IN  /\ db' = o.db
                 /\ last' = Result("attach_comment", req.customer,
                                   req.month, o.res, req.inp)
                 /\ cls' = [audit_id |-> o.audit_id]
    /\ nops' = nops - 1

InitAudit ==
    /\ db \in AuditLogs
    /\ last = NoResult
    /\ nops = MaxOpsAudit
    /\ cls = NoCls

NextAudit == AttachComment

\* Sequences of attach_comment requests against an audit log.
SpecAudit == InitAudit /\ [][NextAudit]_vars

(***************************************************************************)
(* The output file of generate_ppt.  The server handles requests in        *)
(* threads (app.run, threaded by default), so the steps of several         *)
(* requests interleave.  In this specification db is the working           *)
(* directory, a function from file names to the request whose              *)
(* presentation the file holds, and cls gives each request its position:   *)
(*   idle -> assembled -> written -> sending -> ended                      *)
(***************************************************************************)
MaxRequests == 2

Requests == 1..MaxRequests

\* The (customer, month) pairs the requests ask for.
FileTargets ==
    {NameA, NameUpperA} \X {MkDate(1, 1), MkDate(1, 15), MkDate(2, 1)}

\* f"{customer}_{year}_{mon}.pptx", with strftime("%Y") and strftime("%b").
OutputFilename(c, date) ==
    [customer |-> c, year |-> ((date \div 100) - 1) \div 12,
     mon |-> MonthAbbr[(((date \div 100) - 1) % 12) + 1]]

FileNames == {OutputFilename(t[1], t[2]) : t \in FileTargets}

NoFile == [absent |-> TRUE]

Idle == [pc |-> "idle"]

\* A request in progress: sent is the request whose presentation the
\* response holds, 0 before send_file has opened the file.
Running(pc, t, sent) == [pc |-> pc, target |-> t, sent |-> sent]

Ended(t, sent, res) ==
    [pc |-> "ended", target |-> t, sent |-> sent, res |-> res]

RawOf(date) == [fmt |-> "ymd", m |-> date \div 100, d |-> date % 100]

FileResult(req, res) ==
    Result("generate_ppt", req.target[1], RawOf(req.target[2]), res, NoInput)

\* fetch_data and prepare_data_dictionary: the request has its data, or it
\* ends with a failure before any file is written.
Assemble(r) ==
    /\ cls[r].pc = "idle"
    /\ \E t \in FileTargets, data \in BOOLEAN :
          IF data
          THEN /\ cls' = [cls EXCEPT ![r] = Running("assembled", t, 0)]
               /\ UNCHANGED last
          ELSE /\ cls' = [cls EXCEPT
                            ![r] = Ended(t, 0, "failure")]
               /\ last' = FileResult(cls'[r], "failure")
    /\ UNCHANGED <<db, nops>>

\* generate_presentation: prs.save(output_filename) replaces the file.
SavePresentation(r) ==
    /\ cls[r].pc = "assembled"
    /\ db' = [db EXCEPT ![OutputFilename(cls[r].target[1], cls[r].target[2])]
                            = [owner |-> r]]
    /\ cls' = [cls EXCEPT ![r].pc = "written"]
    /\ UNCHANGED <<last, nops>>

\* send_file(output_filename): opens the file, or raises when the file is
\* gone or cannot be read (fails).  When it raises, generate_ppt returns
\* the failure from its except branch: the cleanup was not registered and
\* the directory stays as it is.
SendFile(r) ==
    /\ cls[r].pc = "written"
    /\ \E fails \in BOOLEAN :
          LET name == OutputFilename(cls[r].target[1], cls[r].target[2])
          IN  IF fails \/ db[name] = NoFile
              THEN /\ cls' = [cls EXCEPT
                                ![r] = Ended(cls[r].target, 0, "failure")]
                   /\ last' = FileResult(cls'[r], "failure")
                   /\ UNCHANGED db
              ELSE /\ cls' = [cls EXCEPT ![r].pc = "sending",
                                         ![r].sent = db[name].owner]
                   /\ UNCHANGED <<db, last>>
    /\ UNCHANGED nops

\* response.call_on_close: cleanup removes output_filename if it exists,
\* whichever request wrote it last.
Cleanup(r) ==
    /\ cls[r].pc = "sending"
    /\ db' = [db EXCEPT ![OutputFilename(cls[r].target[1], cls[r].target[2])]
                            = NoFile]
    /\ cls' = [cls EXCEPT
                 ![r] = Ended(cls[r].target, cls[r].sent, "document")]
    /\ last' = FileResult(cls'[r], "document")
    /\ UNCHANGED nops

AssembleStep == \E r \in Requests : Assemble(r)
SaveStep == \E r \in Requests : SavePresentation(r)
SendStep == \E r \in Requests : SendFile(r)
CleanupStep == \E r \in Requests : Cleanup(r)

InitFiles ==
    /\ db = [n \in FileNames |-> NoFile]
    /\ last = NoResult
    /\ nops = 0
    /\ cls = [r \in Requests |-> Idle]

NextFiles == AssembleStep \/ SaveStep \/ SendStep \/ CleanupStep

\* Concurrent report requests and their output files.
SpecFiles == InitFiles /\ [][NextFiles]_vars

(***************************************************************************)
(* Inserts and deletes whose month may name any day.  The requests of      *)
(* the other specifications name first days only; here insert_record and   *)
(* delete_record also receive the fifteenth of the first month.            *)
(***************************************************************************)
MaxOpsDays == 2

AnyDayInputs ==
    {[fmt |-> "ymd", m |-> 1, d |-> 1], [fmt |-> "ymd", m |-> 1, d |-> 15],
     YearMonth}

InsertConfigAnyDay ==
    \E c \in Names, raw \in AnyDayInputs, inp \in ConfigInputs :
        Serve("insert_config", c, raw, inp,
              insert_record(db, "config", c, raw, inp, NoInput, 0))

InsertTableAnyDay ==
    \E c \in Names, raw \in AnyDayInputs, inp \in TableInputs :
        Serve("insert_table", c, raw, inp,
              insert_record(db, "table", c, raw, NoInput, inp, 0))

DeleteRecordAnyDay ==
    \E c \in Names, raw \in AnyDayInputs :
        LET o == delete_record(db, c, raw, 0)
        IN  Serve("delete_record", c, raw, o.counts, o)

InitDays ==
    /\ db = EmptyDb
    /\ last = NoResult
    /\ nops = MaxOpsDays
    /\ cls = NoCls

NextDays == InsertConfigAnyDay \/ InsertTableAnyDay \/ DeleteRecordAnyDay

\* Inserts and deletes from the empty database, for any day of a month.
SpecDays == InitDays /\ [][NextDays]_vars

(***************************************************************************)
(* The session and its inactivity timeout.  In this specification db       *)
(* holds the clock (minutes) and the session cookie: whether it carries a  *)
(* username, the last_activity it carries (isoformat() and                 *)
(* fromisoformat() give the time back unchanged) and whether it carries    *)
(* stored filters.  cls remembers, for the properties, when the user last  *)
(* logged in and when a request that passes before_request_handler's       *)
(* skip list was last made.                                                *)
(***************************************************************************)
MaxClock == 47

Timeout == 30

NoTime == -1

Ticks == {15, 16}

Endpoints == {"static", "login", "check_session", "metrics", "logout"}

NoSession == [username |-> FALSE, last_activity |-> NoTime, filters |-> FALSE]

\* before_request_handler returns at once for every endpoint but login.
SkipsAllButLogin(endpoint) == endpoint # "login"

\* if request.endpoint in ['static', 'login', 'check_session']: return
Skips(endpoint) == endpoint \in {"static", "login", "check_session"}

\* time_since_activity > timedelta(minutes=30), for a session that holds a
\* last_activity.
Expired(s, now) ==
    s.last_activity # NoTime /\ now - s.last_activity > Timeout

\* before_request_handler: the session afterwards, and whether the request
\* was answered with the redirect to the login page.
before_request_handler(s, endpoint, now) ==
    IF Skips(endpoint) \/ ~s.username
    THEN [session |-> s, redirect |-> FALSE]
    ELSE IF Expired(s, now)
    THEN [session |-> NoSession, redirect |-> TRUE]
    ELSE [session |-> [s EXCEPT !.last_activity = now], redirect |-> FALSE]

\* check_session: reads the session; clears it when it has expired.
check_session(s, now) ==
    IF ~s.username THEN [session |-> s, res |-> "invalid"]
    ELSE IF Expired(s, now) THEN [session |-> NoSession, res |-> "expired"]
    ELSE [session |-> s, res |-> "valid"]

\* A view behind login_required that stores the selected filters.
metrics(s) ==
    IF ~s.username THEN [session |-> s, res |-> "redirect"]
    ELSE [session |-> [s EXCEPT !.filters = TRUE], res |-> "served"]

\* login with valid credentials (ok) or not.
login(s, ok, now) ==
    IF ok
    THEN [session |-> [username |-> TRUE, last_activity |-> now,
                       filters |-> FALSE],
          res |-> "served"]
    ELSE [session |-> s, res |-> "rejected"]

Handle(s, endpoint, ok, now) ==
    LET b == before_request_handler(s, endpoint, now)
    IN  IF b.redirect THEN [session |-> b.session, res |-> "redirect"]
        ELSE CASE endpoint = "check_session" -> check_session(b.session, now)
               [] endpoint = "metrics" -> metrics(b.session)
               [] endpoint = "login" -> login(b.session, ok, now)
               [] endpoint = "logout" ->
                      [session |-> NoSession, res |-> "served"]
               [] OTHER -> [session |-> b.session, res |-> "served"]

SessionRequest(endpoint) ==
    /\ \E ok \in BOOLEAN :
          LET o == Handle(db.session, endpoint, ok, db.now)
          IN  /\ db' = [db EXCEPT !.session = o.session]
              /\ last' = [Result(endpoint, NoName, NoMonth, o.res, NoInput)
                             EXCEPT !.warnings = {ok}]
              /\ cls' = [counted |-> IF Skips(endpoint) THEN cls.counted
                                     ELSE db.now,
                         login |-> IF endpoint = "login" /\ ok THEN db.now
                                   ELSE cls.login]
    /\ UNCHANGED nops

StaticRequest == SessionRequest("static")
LoginRequest == SessionRequest("login")
CheckSessionRequest == SessionRequest("check_session")
MetricsRequest == SessionRequest("metrics")
LogoutRequest == SessionRequest("logout")

Tick ==
    /\ \E d \in Ticks :
          /\ db.now + d <= MaxClock
          /\ db' = [db EXCEPT !.now = db.now + d]
    /\ UNCHANGED <<last, nops, cls>>

InitSession ==
    /\ db = [now |-> 0, session |-> NoSession]
    /\ last = NoResult
    /\ nops = 0
    /\ cls = [counted |-> NoTime, login |-> NoTime]

NextSession ==
    \/ StaticRequest
    \/ LoginRequest
    \/ CheckSessionRequest
    \/ MetricsRequest
    \/ LogoutRequest
    \/ Tick

\* The requests of one browser session as time passes.
SpecSession == InitSession /\ [][NextSession]_vars

(***************************************************************************)
(* The life of a customer's records from the empty database: inserts in    *)
(* both modes and deletes for two customers whose names differ in letter   *)
(* case only and two months, and an edit and a configuration save of one   *)
(* of them, all with a database that works.                                *)
(***************************************************************************)
MaxOpsLifecycle == 5

LifecycleNames == {NameA, NameUpperA}

LifecycleMonths == {YearMonth, [fmt |-> "ymd", m |-> 2, d |-> 1]}

LifecycleInsertConfig ==
    \E c \in LifecycleNames, raw \in LifecycleMonths :
      \E inp \in {i \in ConfigInputs : i.no_of_months # NonNumeric} :
        Serve("insert_config", c, raw, inp,
              insert_record(db, "config", c, raw, inp, NoInput, 0))

LifecycleInsertTable ==
    \E c \in LifecycleNames, raw \in LifecycleMonths, inp \in TableInputs :
        Serve("insert_table", c, raw, inp,
              insert_record(db, "table", c, raw, NoInput, inp, 0))

LifecycleDeleteRecord ==
    \E c \in LifecycleNames, raw \in LifecycleMonths :
        LET o == delete_record(db, c, raw, 0)
        IN  Serve("delete_record", c, raw, o.counts, o)

LifecycleSaveTickets ==
    \E inp \in {i \in TicketsInputs : Numeric(i)} :
        Serve("save_tickets", NameA, [fmt |-> "ymd", m |-> 1, d |-> 1], inp,
              save_tickets(db, NameA, [fmt |-> "ymd", m |-> 1, d |-> 1],
                           inp, 0))

LifecycleSaveConfig ==
    Serve("save_config", NameA, [fmt |-> "ymd", m |-> 2, d |-> 1],
          SaveConfigBase,
          save_config(db, NameA, [fmt |-> "ymd", m |-> 2, d |-> 1],
                      SaveConfigBase, 0))

InitLifecycle ==
    /\ db = EmptyDb
    /\ last = NoResult
    /\ nops = MaxOpsLifecycle
    /\ cls = NoCls

NextLifecycle ==
    \/ LifecycleInsertConfig
    \/ LifecycleInsertTable
    \/ LifecycleDeleteRecord
    \/ LifecycleSaveTickets
    \/ LifecycleSaveConfig

SpecLifecycle == InitLifecycle /\ [][NextLifecycle]_vars

(***************************************************************************)
(* Two sessions that edit the same customer at the same time.  Each        *)
(* request runs on its own connection as one PostgreSQL transaction at     *)
(* READ COMMITTED: an UPDATE locks every row it changes until the          *)
(* transaction ends, waits for a row another transaction has locked and    *)
(* then works on that row's committed version; conn.commit() publishes     *)
(* all the writes at once.  In this specification db holds the committed   *)
(* tables and each session's transaction, cls the tables before the        *)
(* requests.                                                               *)
(***************************************************************************)
Sessions == {1, 2}

ConcurrentOps == {"save_users", "save_storage"}

ConcurrentInputs(op) ==
    IF op = "save_users" THEN {inp \in UsersInputs : Numeric(inp)}
    ELSE StorageInputs

ConcurrentMonths == FirstDays \cup {[fmt |-> "ymd", m |-> 1, d |-> 15]}

ConcurrentRequests ==
    {r \in [op : ConcurrentOps, month : ConcurrentMonths,
            inp : UsersInputs \cup StorageInputs] :
        r.inp \in ConcurrentInputs(r.op)}

\* The customer also has rows in the middle of the first month, inserted
\* with a day other than the first.
WithMidMonth(d) ==
    [t \in Tables |-> [k \in Keys |->
        IF k = <<NameA, MidMonth>> THEN LoadedRow(t, 1) ELSE d[t][k]]]

ConcurrentStores == FaultyStores \cup {WithMidMonth(d) : d \in FaultyStores}

NoRequest == [op |-> "none", month |-> NoMonth, inp |-> NoInput]

\* pc: 0 before the request, 1..4 the UPDATE being executed, 5 after
\* conn.commit(), 6 after an exception.
NoTx == [pc |-> 0, req |-> NoRequest, todo |-> {}, held |-> {},
         writes |-> EmptyDb]

\* The table of the i-th UPDATE of the handler.
StatementTable(op, i) ==
    IF i <= 2 THEN "final_computed_table"
    ELSE IF op = "save_users" THEN "users_table" ELSE "storage_table"

\* The rows the i-th UPDATE matches: the month itself for the first and
\* the third, the later months for the second and the fourth.
StatementTargets(d, req, i) ==
    LET t == StatementTable(req.op, i)
        date == SqlDate(req.month)
    IN  {k \in Keys :
            /\ Has(d, t, k)
            /\ IF i \in {1, 3} THEN k[1] = NameA /\ k[2] = date
               ELSE Future(k, NameA, date)}

\* The SET clause of the i-th UPDATE applied to row r.
StatementSet(req, i, r) ==
    CASE req.op = "save_users" /\ i = 1 -> [r EXCEPT !.us = UsOf(req.inp)]
      [] req.op = "save_users" /\ i = 2 ->
            [r EXCEPT !.us = UsLimits(r.us, req.inp)]
      [] req.op = "save_users" /\ i = 3 -> [r EXCEPT !.upd = UsOf(req.inp)]
      [] req.op = "save_users" /\ i = 4 ->
            [r EXCEPT !.upd = UsLimits(r.upd, req.inp)]
      [] req.op = "save_storage" /\ i = 1 -> [r EXCEPT !.st = StOf(req.inp)]
      [] req.op = "save_storage" /\ i = 2 ->
            [r EXCEPT !.st = StTargets(r.st, req.inp)]
      [] req.op = "save_storage" /\ i = 3 -> [r EXCEPT !.upd = StOf(req.inp)]
      [] req.op = "save_storage" /\ i = 4 ->
            [r EXCEPT !.upd = StTargets(r.upd, req.inp)]

Other(s) == CHOOSE o \in Sessions : o # s

\* Rows are never locked.
BlockedNever(txs, s, t, k) == FALSE

\* The row is locked by the other session's open transaction.
Blocked(txs, s, t, k) == <<t, k>> \in txs[Other(s)].held

\* The transaction waits: every row its UPDATE has still to change is
\* locked by the other session.
Waiting(txs, s) ==
    /\ txs[s].pc \in 1..4
    /\ txs[s].todo # {}
    /\ \A k \in txs[s].todo :
          Blocked(txs, s, StatementTable(txs[s].req.op, txs[s].pc), k)

\* The request arrives: the handler connects and starts its first UPDATE.
BeginEdit(s) ==
    /\ db.tx[s].pc = 0
    /\ \E req \in ConcurrentRequests :
          db' = [db EXCEPT !.tx[s] =
                    [NoTx EXCEPT !.pc = 1, !.req = req,
                                 !.todo = StatementTargets(db.committed,
                                                           req, 1)]]
    /\ UNCHANGED <<last, nops, cls>>

\* The running UPDATE locks and changes one more row.
UpdateRow(s) ==
    LET tx == db.tx[s]
        t == StatementTable(tx.req.op, tx.pc)
    IN  /\ tx.pc \in 1..4
        /\ \E k \in tx.todo :
              /\ ~Blocked(db.tx, s, t, k)
              /\ db' = [db EXCEPT !.tx[s] =
                    [tx EXCEPT
                        !.todo = @ \ {k},
                        !.held = @ \cup {<<t, k>>},
                        !.writes[t][k] =
                            StatementSet(tx.req, tx.pc,
                                IF <<t, k>> \in tx.held THEN tx.writes[t][k]
                                ELSE db.committed[t][k])]]
        /\ UNCHANGED <<last, nops, cls>>

\* The UPDATE is done; the handler executes the next one.
NextStatement(s) ==
    LET tx == db.tx[s]
    IN  /\ tx.pc \in 1..3
        /\ tx.todo = {}
        /\ db' = [db EXCEPT !.tx[s] =
                    [tx EXCEPT !.pc = tx.pc + 1,
                               !.todo = StatementTargets(db.committed,
                                                         tx.req, tx.pc + 1)]]
        /\ UNCHANGED <<last, nops, cls>>

\* conn.commit(): all the writes become visible and the locks are released.
CommitEdit(s) ==
    LET tx == db.tx[s]
    IN  /\ tx.pc = 4
        /\ tx.todo = {}
        /\ db' = [committed |->
                     [t \in Tables |-> [k \in Keys |->
                         IF <<t, k>> \in tx.held THEN tx.writes[t][k]
                         ELSE db.committed[t][k]]],
                  tx |-> [db.tx EXCEPT ![s] =
                            [tx EXCEPT !.pc = 5, !.held = {},
                                       !.writes = EmptyDb]]]
        /\ last' = Result(tx.req.op, NameA, tx.req.month, "ok", tx.req.inp)
        /\ UNCHANGED <<nops, cls>>

\* Both transactions wait for each other: PostgreSQL ends one of them with
\* a deadlock error, the handler answers the failure and the connection
\* is dropped with nothing committed.
DeadlockAbort(s) ==
    LET tx == db.tx[s]
    IN  /\ Waiting(db.tx, s)
        /\ Waiting(db.tx, Other(s))
        /\ db' = [db EXCEPT !.tx[s] =
                    [tx EXCEPT !.pc = 6, !.todo = {}, !.held = {},
                               !.writes = EmptyDb]]
        /\ last' = Result(tx.req.op, NameA, tx.req.month, "error", tx.req.inp)
        /\ UNCHANGED <<nops, cls>>

BeginEditStep == \E s \in Sessions : BeginEdit(s)
UpdateRowStep == \E s \in Sessions : UpdateRow(s)
NextStatementStep == \E s \in Sessions : NextStatement(s)
CommitEditStep == \E s \in Sessions : CommitEdit(s)
DeadlockAbortStep == \E s \in Sessions : DeadlockAbort(s)

InitConcurrent ==
    /\ \E d \in ConcurrentStores :
          /\ db = [committed |-> d, tx |-> [s \in Sessions |-> NoTx]]
          /\ cls = d
    /\ last = NoResult
    /\ nops = 0

NextConcurrent ==
    \/ BeginEditStep
    \/ UpdateRowStep
    \/ NextStatementStep
    \/ CommitEditStep
    \/ DeadlockAbortStep

\* Two sessions, one edit each, statements interleaved in any order.
SpecConcurrent == InitConcurrent /\ [][NextConcurrent]_vars

(***************************************************************************)
(* Properties.                                                             *)
(***************************************************************************)
Fin == "final_computed_table"
Cfg == "customer_mapping_table"

EditOps == {"save_availability", "save_users", "save_storage", "save_tickets"}

PropagatingOps == {"save_users", "save_storage"}

EditTable(op) ==
    CASE op = "save_availability" -> "availability_table"
      [] op = "save_users" -> "users_table"
      [] op = "save_storage" -> "storage_table"
      [] op = "save_tickets" -> "tickets_computed_table"

\* rec holds every value of the edit inp of kind op.
Carries(op, rec, inp) ==
    CASE op = "save_availability" ->
            /\ rec.updated_availability = [hundredths |-> inp.availability]
            /\ rec.updated_target = [hundredths |-> inp.target]
      [] op = "save_users" ->
            /\ rec.updated_prod_limit = inp.prod_limit
            /\ rec.updated_prod_used = inp.prod_used
            /\ rec.updated_test_limit = inp.test_limit
            /\ rec.updated_test_used = inp.test_used
            /\ rec.updated_dev_limit = inp.dev_limit
            /\ rec.updated_dev_used = inp.dev_used
      [] op = "save_storage" ->
            /\ rec.updated_prod_target_storage_gb = to_decimal(inp.prod_target)
            /\ rec.updated_prod_storage_gb = to_decimal(inp.prod_actual)
            /\ rec.updated_test_target_storage_gb = to_decimal(inp.test_target)
            /\ rec.updated_test_storage_gb = to_decimal(inp.test_actual)
            /\ rec.updated_dev_target_storage_gb = to_decimal(inp.dev_target)
            /\ rec.updated_dev_storage_gb = to_decimal(inp.dev_actual)
      [] op = "save_tickets" ->
            /\ rec.updated_current_opened_tickets = inp.opened
            /\ rec.updated_current_closed_tickets = inp.closed
            /\ rec.updated_current_backlog_tickets = inp.curr_backlog
            /\ rec.updated_tickets_backlog = inp.overall_backlog

\* rec holds the limit/target values of the edit inp.
CarriesLimits(op, rec, inp) ==
    CASE op = "save_users" ->
            /\ rec.updated_prod_limit = inp.prod_limit
            /\ rec.updated_test_limit = inp.test_limit
            /\ rec.updated_dev_limit = inp.dev_limit
      [] op = "save_storage" ->
            /\ rec.updated_prod_target_storage_gb = to_decimal(inp.prod_target)
            /\ rec.updated_test_target_storage_gb = to_decimal(inp.test_target)
            /\ rec.updated_dev_target_storage_gb = to_decimal(inp.dev_target)

\* r1 and r2 have the same used/actual values.
SameUsage(op, r1, r2) ==
    CASE op = "save_users" ->
            /\ r1.updated_prod_used = r2.updated_prod_used
            /\ r1.updated_test_used = r2.updated_test_used
            /\ r1.updated_dev_used = r2.updated_dev_used
      [] op = "save_storage" ->
            /\ r1.updated_prod_storage_gb = r2.updated_prod_storage_gb
            /\ r1.updated_test_storage_gb = r2.updated_test_storage_gb
            /\ r1.updated_dev_storage_gb = r2.updated_dev_storage_gb

\* The updated_* part of the row of key k in table t (aggregate: the part
\* of the domain of op).
Part(d, t, op, k) ==
    IF t = Fin THEN d[Fin][k][DomainPart(EditTable(op))] ELSE d[t][k].upd

EditedKey == <<last.customer, SqlDate(last.month)>>

\* C1: whenever a (customer, month) has an aggregate row and a row in a
\* domain table, the updated_* values of that domain are the same in both.
C1_AggregateAgrees ==
    \A k \in Keys : \A t \in DomainTables :
        (db[Fin][k] # NoRow /\ db[t][k] # NoRow)
            => db[Fin][k][DomainPart(t)] = db[t][k].upd

\* A users edit has just propagated its limits to a later month that has
\* both rows.
C1_Witness ==
    /\ last.op = "save_users"
    /\ last.res = "ok"
    /\ \E k \in Keys :
        /\ k[1] = last.customer
        /\ k[2] > SqlDate(last.month)
        /\ db[Fin][k] # NoRow
        /\ db["users_table"][k] # NoRow
        /\ db["users_table"][k].upd.updated_prod_limit = last.inp.prod_limit
        /\ db["users_table"][k].upd.updated_prod_used # last.inp.prod_used

\* The writes of the edit served last are all in the committed tables.
EditVisible ==
    LET op == last.op
        k == EditedKey
    IN  /\ \A t \in {Fin, EditTable(op)} :
            db[t][k] # NoRow => Carries(op, Part(db, t, op, k), last.inp)
        /\ op \in PropagatingOps =>
            \A t \in {Fin, EditTable(op)} : \A k2 \in Keys :
                (k2[1] = k[1] /\ k2[2] > k[2] /\ db[t][k2] # NoRow)
                    => CarriesLimits(op, Part(db, t, op, k2), last.inp)

\* C2: an edit that does not report success leaves every table as it was;
\* one that reports success has all its writes committed.
C2_EditsAtomic ==
    [][last'.op \in EditOps =>
        IF last'.res = "ok" THEN EditVisible' ELSE db' = db]_vars

\* A users edit with valid input failed although the aggregate row of its
\* key was there to be written: nothing of it is committed.
C2_Witness ==
    /\ last.op = "save_users"
    /\ last.res = "error"
    /\ last.month.fmt = "ymd"
    /\ last.inp.prod_limit # NonNumeric
    /\ db[Fin][EditedKey] # NoRow
    /\ db[Fin][EditedKey].us.updated_prod_used # last.inp.prod_used

\* C3: a successful edit for (C, M) changes rows of the aggregate table
\* and of its own domain table only, of customer C only, and of month M
\* only (users, storage: of M and the later months, which then hold the
\* edited limits).
C3_EditFrame ==
    [][(last'.op \in EditOps /\ last'.res = "ok") =>
        LET op == last'.op
            c == last'.customer
            date == SqlDate(last'.month)
        IN  /\ \A t \in Tables : \A k \in Keys :
                db'[t][k] # db[t][k] =>
                    /\ t \in {Fin, EditTable(op)}
                    /\ k[1] = c
                    /\ IF op \in PropagatingOps THEN k[2] >= date
                       ELSE k[2] = date
            /\ op \in PropagatingOps =>
                \A t \in {Fin, EditTable(op)} : \A k \in Keys :
                    (k[1] = c /\ k[2] >= date /\ db'[t][k] # NoRow)
                        => CarriesLimits(op, Part(db', t, op, k), last'.inp)
    ]_vars

\* A users edit reached a later month of its customer while another
\* customer has a row for that month with other limits.
C3_Witness ==
    /\ last.op = "save_users"
    /\ last.res = "ok"
    /\ \E k \in Keys : \E k2 \in Keys :
        /\ k[1] = last.customer
        /\ k[2] > SqlDate(last.month)
        /\ db["users_table"][k] # NoRow
        /\ db["users_table"][k].upd.updated_prod_limit = last.inp.prod_limit
        /\ k2[1] # last.customer
        /\ k2[2] = k[2]
        /\ db["users_table"][k2] # NoRow
        /\ db["users_table"][k2].upd.updated_prod_limit # last.inp.prod_limit

\* C4: the rows of later months keep their used/actual values in both
\* tables when a users or storage edit propagates, and take its
\* limit/target values.
C4_PropagationKeepsUsage ==
    [][(last'.op \in PropagatingOps /\ last'.res = "ok") =>
        LET op == last'.op
            c == last'.customer
            date == SqlDate(last'.month)
        IN  \A t \in {Fin, EditTable(op)} : \A k \in Keys :
                (k[1] = c /\ k[2] > date /\ db[t][k] # NoRow) =>
                    /\ db'[t][k] # NoRow
                    /\ SameUsage(op, Part(db', t, op, k), Part(db, t, op, k))
                    /\ CarriesLimits(op, Part(db', t, op, k), last'.inp)
    ]_vars

\* A storage edit changed the targets of a later month whose actual values
\* differ from the edited ones.
C4_Witness ==
    /\ last.op = "save_storage"
    /\ last.res = "ok"
    /\ \E k \in Keys :
        /\ k[1] = last.customer
        /\ k[2] > SqlDate(last.month)
        /\ db["storage_table"][k] # NoRow
        /\ db[Fin][k] # NoRow
        /\ db[Fin][k].st.updated_prod_target_storage_gb
                = to_decimal(last.inp.prod_target)
        /\ db[Fin][k].st.updated_prod_storage_gb
                # to_decimal(last.inp.prod_actual)

\* C5: the availability color key is Color1 iff value >= Color1, Color2
\* iff not so and value >= Color2, Color3 iff neither and value >= Color3,
\* Invalid iff the value is below all three; with cutoffs 90/80/70 the
\* values 95 and 90 give Color1, 85 Color2, 75 Color3 and 50 Invalid.
C5_SingleLadder ==
    cls # NoCls => (cls.slide2 # "none" =>
        LET v == cls.value
            r == cls.rules
            key == cls.slide2
        IN  /\ key = "Color1" <=> v >= r.Color1
            /\ key = "Color2" <=> (v < r.Color1 /\ v >= r.Color2)
            /\ key = "Color3" <=>
                    (v < r.Color1 /\ v < r.Color2 /\ v >= r.Color3)
            /\ key = "Invalid" <=>
                    (v < r.Color1 /\ v < r.Color2 /\ v < r.Color3)
            /\ r = [Color1 |-> 90, Color2 |-> 80, Color3 |-> 70] =>
                /\ v \in {95, 90} => key = "Color1"
                /\ v = 85 => key = "Color2"
                /\ v = 75 => key = "Color3"
                /\ v = 50 => key = "Invalid")

\* The value equals the Color1 cutoff and is classified Color1.
C5_Witness ==
    /\ cls # NoCls
    /\ cls.rules = [Color1 |-> 90, Color2 |-> 80, Color3 |-> 70]
    /\ cls.value = 90
    /\ cls.slide2 = "Color1"

Larger(a, b) == IF a >= b THEN a ELSE b

\* The usage ladder applied to one value.
UsageLadder(v, r) ==
    IF v >= r.Color3 THEN "Color3"
    ELSE IF v >= r.Color2 THEN "Color2"
    ELSE IF v >= r.Color1 THEN "Color1"
    ELSE "Invalid"

UsageKeyRight(key, p, t, r) ==
    /\ key = "Color3" <=> (p >= r.Color3 \/ t >= r.Color3)
    /\ key = "Color2" <=>
            (~(p >= r.Color3 \/ t >= r.Color3)
             /\ (p >= r.Color2 \/ t >= r.Color2))
    /\ key = "Color1" <=>
            (~(p >= r.Color3 \/ t >= r.Color3)
             /\ ~(p >= r.Color2 \/ t >= r.Color2)
             /\ (p >= r.Color1 \/ t >= r.Color1))
    /\ key = "Invalid" <=>
            (p < r.Color1 /\ t < r.Color1 /\ p < r.Color2 /\ t < r.Color2
             /\ p < r.Color3 /\ t < r.Color3)
    /\ key = UsageLadder(Larger(p, t), r)

\* C6: the license and storage color keys are Color3 if either value
\* reaches Color3, else Color2 if either reaches Color2, else Color1 if
\* either reaches Color1, else Invalid; this is the key of the larger of
\* the two values alone.
C6_DualLadder ==
    cls # NoCls =>
        /\ cls.slide3 # "none" =>
            UsageKeyRight(cls.slide3, cls.value, cls.test, cls.rules)
        /\ cls.slide4 # "none" =>
            UsageKeyRight(cls.slide4, cls.value, cls.test, cls.rules)

\* Prod 50 % and test 95 % with Color3 = 90: the key is that of the 95.
C6_Witness ==
    /\ cls # NoCls
    /\ cls.rules.Color3 = 90
    /\ cls.value = 50
    /\ cls.test = 95
    /\ cls.slide3 = "Color3"
    /\ cls.slide4 = "Color3"

\* C7: every (customer, month) that has an aggregate row or a domain row
\* has a configuration row.
C7_ConfigPrecedesData ==
    \A k \in Keys :
        (\E t \in DataTables : db[t][k] # NoRow) => db[Cfg][k] # NoRow

ConfigRows(d, c) == {k \in Keys : k[1] = c /\ d[Cfg][k] # NoRow}

\* C8: config-mode insert for a customer that has a configuration row for
\* any month answers "already exists" and changes no table; a config-mode
\* insert that succeeds is for a customer without one and leaves it with
\* exactly one.
C8_ConfiguredOnce ==
    [][last'.op = "insert_config" =>
        LET c == last'.customer
        IN  /\ (/\ ConfigRows(db, c) # {}
                /\ ParseInsertMonth(last'.month) # NoDate
                /\ last'.inp.no_of_months # NonNumeric)
               => (last'.res = "already_exists" /\ db' = db)
            /\ last'.res = "ok" =>
                /\ ConfigRows(db, c) = {}
                /\ Cardinality(ConfigRows(db', c)) = 1
    ]_vars

\* Config-mode insert was refused for a month other than the one the
\* customer is configured for.
C8_Witness ==
    /\ last.op = "insert_config"
    /\ last.res = "already_exists"
    /\ db[Cfg][<<last.customer, ParseInsertMonth(last.month)>>] = NoRow
    /\ ConfigRows(db, last.customer) # {}

\* The five data rows of key k hold the payload of the table-mode insert.
HoldsPayload(d, k, inp) ==
    LET n == [x \in DOMAIN inp |-> IF inp[x] = NonNumeric THEN 0 ELSE inp[x]]
        p == [n EXCEPT
                !.updated_availability = [hundredths |-> n.updated_availability],
                !.updated_target = [hundredths |-> n.updated_target]]
        Same(rec) == \A x \in DOMAIN rec : rec[x] = p[x]
    IN  /\ \A t \in DataTables : d[t][k] # NoRow
        /\ Same(d[Fin][k].av) /\ Same(d[Fin][k].us)
        /\ Same(d[Fin][k].st) /\ Same(d[Fin][k].tk)
        /\ \A t \in DomainTables : Same(d[t][k].upd)

\* C9: table-mode insert for a configured key without aggregate row
\* succeeds and creates the aggregate row and the four domain rows; for a
\* configured key that has the aggregate row it answers "already exists"
\* and changes no table.
C9_TableInsertGuard ==
    [][(last'.op = "insert_table" /\ last'.customer # NoName
        /\ ParseInsertMonth(last'.month) # NoDate) =>
        LET k == <<last'.customer, ParseInsertMonth(last'.month)>>
        IN  /\ (db[Cfg][k] # NoRow /\ db[Fin][k] = NoRow) =>
                /\ last'.res = "ok"
                /\ HoldsPayload(db', k, last'.inp)
                /\ \A t \in Tables : \A k2 \in Keys :
                    db'[t][k2] # db[t][k2] => (k2 = k /\ t \in DataTables)
            /\ (db[Cfg][k] # NoRow /\ db[Fin][k] # NoRow) =>
                (last'.res = "already_exists" /\ db' = db)
            /\ last'.res = "ok" => (db[Cfg][k] # NoRow /\ db[Fin][k] = NoRow)
    ]_vars

\* A table-mode insert succeeded: its key now has the aggregate row, so
\* the next one for it is the refused case.
C9_Witness ==
    /\ last.op = "insert_table"
    /\ last.res = "ok"
    /\ HoldsPayload(db, <<last.customer, ParseInsertMonth(last.month)>>,
                    last.inp)

\* C10: delete_record removes either none of the six rows of its
\* (customer, month) or leaves none of them.
C10_DeleteAllOrNothing ==
    [][(last'.op = "delete_record" /\ Strip(last'.customer) # NoName
        /\ ParseDeleteMonth(last'.month) # NoDate) =>
        LET k == <<Strip(last'.customer), ParseDeleteMonth(last'.month)>>
            removed == {t \in Tables : db[t][k] # NoRow /\ db'[t][k] = NoRow}
        IN  \/ removed = {}
            \/ \A t \in Tables : db'[t][k] = NoRow
    ]_vars

\* The DELETE on availability_table raised after the aggregate row had
\* been deleted in the transaction: the aggregate row is still there.
C10_Witness ==
    /\ last.op = "delete_record"
    /\ last.inp # NoInput
    /\ last.inp["final_computed_table"] = 1
    /\ last.inp["availability_table"] = CountError
    /\ db[Fin][<<Strip(last.customer), ParseDeleteMonth(last.month)>>] # NoRow

\* The rows of table t that the last step removed.
Removed(t) == {k \in Keys : db[t][k] # NoRow /\ db'[t][k] = NoRow}

\* C11: delete_record reports success exactly when it removed at least
\* one row, the count it reports for each table is the number of rows it
\* removed from that table, and for a (customer, month) without rows it
\* reports failure and changes nothing.
C11_DeleteReportsRemovals ==
    [][(last'.op = "delete_record" /\ Strip(last'.customer) # NoName
        /\ ParseDeleteMonth(last'.month) # NoDate) =>
        LET k == <<Strip(last'.customer), ParseDeleteMonth(last'.month)>>
        IN  /\ last'.res = "ok" <=> (\E t \in Tables : Removed(t) # {})
            /\ last'.res = "ok" =>
                \A t \in Tables : last'.inp[t] = Cardinality(Removed(t))
            /\ (\A t \in Tables : db[t][k] = NoRow) =>
                (last'.res # "ok" /\ db' = db)
    ]_vars

SavedKey == <<last.customer, ParseConfigMonth(last.month)>>

\* The note set has at most 3 lines of at most 70 characters for every
\* classification.
WithinLimits(notes) ==
    \A key \in Classifications :
        /\ Len(notes[key]) <= 3
        /\ \A i \in 1..Len(notes[key]) : notes[key][i] <= 70

\* The request fails one of the validations of save_config.
FailsValidation(req) ==
    \/ ParseConfigMonth(req.month) = NoDate
    \/ \E x \in StructuredFields : req.inp.fields[x] \in {"bad", "missing"}
    \/ /\ \A x \in StructuredFields : req.inp.fields[x] = "json"
       /\ \E x \in NoteFields : ~WithinLimits(req.inp.notes[x])

\* C12: a save_config request with an invalid month, with a structured
\* field that is missing or does not parse, or with a note set over the
\* limits is answered with a failure and changes no table.
C12_InvalidConfigWritesNothing ==
    [][(last'.op = "save_config" /\ FailsValidation(last')) =>
        (last'.res \in {"invalid_month", "rejected"} /\ db' = db)]_vars

\* A request with one unparsable field and new manager names was refused
\* for a key that has both rows; the names are the old ones.
C12_Witness ==
    /\ last.op = "save_config"
    /\ last.res = "rejected"
    /\ last.month.fmt = "ymd"
    /\ last.inp.fields["thr_storage"] = "bad"
    /\ db[Cfg][SavedKey] # NoRow
    /\ db[Fin][SavedKey] # NoRow
    /\ db[Cfg][SavedKey].csm_primary # last.inp.csm_primary
    /\ db[Fin][SavedKey].csm_primary # last.inp.csm_primary

\* C13: save_config turns a request with parsed fields down for its notes
\* exactly when a note has more than 3 lines or a line of more than 70
\* characters, and every note set that save_config stored is within these
\* limits.
C13_NoteLimits ==
    /\ \A k \in Keys :
        (db[Cfg][k] # NoRow /\ "notes" \in DOMAIN db[Cfg][k].structured) =>
            \A x \in NoteFields : WithinLimits(db[Cfg][k].structured.notes[x])
    /\ (/\ last.op = "save_config"
        /\ ParseConfigMonth(last.month) # NoDate
        /\ \A x \in StructuredFields : last.inp.fields[x] = "json")
       => (last.res = "rejected"
            <=> \E x \in NoteFields : ~WithinLimits(last.inp.notes[x]))

\* A note of three lines of 70 characters was accepted and is stored.
C13_Witness ==
    /\ last.op = "save_config"
    /\ last.res = "ok"
    /\ db[Cfg][SavedKey] # NoRow
    /\ "notes" \in DOMAIN db[Cfg][SavedKey].structured
    /\ db[Cfg][SavedKey].structured.notes["notes_users"].Color1
            = <<70, 70, 70>>

IsPrefix(a, b) ==
    /\ Len(a) <= Len(b)
    /\ \A i \in 1..Len(a) : a[i] = b[i]

\* C14: save_config never removes, replaces or reorders a stored external
\* identifier; a successful save_config leaves the list of its key as it
\* was, followed by the new identifier when one is given.
C14_UidAppendOnly ==
    [][last'.op = "save_config" =>
        /\ \A k \in Keys :
            db[Cfg][k] # NoRow =>
                /\ db'[Cfg][k] # NoRow
                /\ IsPrefix(db[Cfg][k].customer_uid, db'[Cfg][k].customer_uid)
        /\ LET k == <<last'.customer, ParseConfigMonth(last'.month)>>
           IN  (last'.res = "ok" /\ db[Cfg][k] # NoRow) =>
                db'[Cfg][k].customer_uid =
                    IF last'.inp.new_customer_uid = ""
                    THEN db[Cfg][k].customer_uid
                    ELSE db[Cfg][k].customer_uid
                            \o <<last'.inp.new_customer_uid>>
    ]_vars

\* An identifier was appended to a list that held one already.
C14_Witness ==
    /\ last.op = "save_config"
    /\ last.res = "ok"
    /\ db[Cfg][SavedKey] # NoRow
    /\ db[Cfg][SavedKey].customer_uid = <<"u0", "u1">>

\* The warnings the claim asks for: one for every tier whose used value
\* is greater than its limit.
ExpectedWarnings(inp) ==
    (IF inp.prod_used > inp.prod_limit THEN {"Prod Used > Prod Limit"} ELSE {})
    \cup
    (IF inp.test_used > inp.test_limit THEN {"Test Used > Test Limit"} ELSE {})
    \cup
    (IF inp.dev_used > inp.dev_limit THEN {"Dev Used > Dev Limit"} ELSE {})

\* C15: save_users with numeric values and a date succeeds whatever the
\* values are, and its warnings are exactly those of the tiers whose used
\* value is greater than the limit.
C15_WarningsPerTier ==
    [][(/\ last'.op = "save_users"
        /\ last'.month.fmt = "ymd"
        /\ \A x \in DOMAIN last'.inp : last'.inp[x] # NonNumeric)
       => (/\ last'.res = "ok"
           /\ last'.warnings = ExpectedWarnings(last'.inp))]_vars

\* The (customer, month) a request of an update or delete handler is
\* aimed at.
TargetKey(req) ==
    IF req.op = "delete_record"
    THEN <<Strip(req.customer), ParseDeleteMonth(req.month)>>
    ELSE <<req.customer, SqlDate(req.month)>>

\* C16: an edit, a save_config or a delete_record for a (customer, month)
\* that has no row in any table is answered with a failure and changes no
\* table.
C16_MissingRecordFails ==
    [][(/\ last'.op \in EditOps \cup {"save_config", "delete_record"}
        /\ TargetKey(last') \in Keys
        /\ \A t \in Tables : db[t][TargetKey(last')] = NoRow)
       => (last'.res # "ok" /\ db' = db)]_vars

\* C17: no request of a mutating endpoint ends in an exception that the
\* handler does not turn into a failure result.
C17_NoUnhandledException == last.res # "unhandled"

\* The key a report request names, and the rows of table t that lie in
\* the window the configuration row of that key asks for.
ReportTarget == <<last.customer, ReportMonth(last.month)>>

ExpectedWindow ==
    IF db[Cfg][ReportTarget] = NoRow THEN 6
    ELSE db[Cfg][ReportTarget].no_of_months

ExpectedRows(t) ==
    {k \in ReportKeys :
        /\ k[1] = ReportTarget[1]
        /\ db[t][k] # NoRow
        /\ k[2] >= ReportTarget[2] - 100 * (ExpectedWindow - 1)
        /\ k[2] <= ReportTarget[2]}

Loaded == last.op = "generate_ppt" /\ cls.loaded

\* C18: report assembly takes the window length from the configuration
\* row of (customer, target month), 6 when there is none, and loads
\* exactly the configuration and aggregate rows of that customer whose
\* month lies in [target - (window - 1) months, target].
C18_WindowLoaded ==
    Loaded =>
        /\ cls.no_of_months = ExpectedWindow
        /\ cls.customer_mapping_df = ExpectedRows(Cfg)
        /\ Unique(cls.final_computed_df) = ExpectedRows(Fin)
        /\ Len(cls.final_computed_df) = Cardinality(ExpectedRows(Fin))

\* The default window of 6 months was used, rows were loaded, and the
\* customer has an aggregate row before the window and another customer
\* has rows inside it.
C18_Witness ==
    /\ Loaded
    /\ db[Cfg][ReportTarget] = NoRow
    /\ cls.no_of_months = 6
    /\ cls.customer_mapping_df # {}
    /\ Len(cls.final_computed_df) = 6
    /\ \E k \in ReportKeys :
          /\ k[1] = ReportTarget[1]
          /\ db[Fin][k] # NoRow
          /\ k[2] < cls.start_date
    /\ \E k \in ReportKeys :
          /\ k[1] # ReportTarget[1]
          /\ db[Fin][k] # NoRow
          /\ k[2] = ReportTarget[2]

HasAtTarget(t) == db[t][ReportTarget] # NoRow

\* C19: report assembly fails with 'no data' when the window holds no
\* aggregate row or no configuration row of the customer, fails with
\* 'current-month data missing' when the window holds both but the target
\* month lacks one of them, and returns a document only when the target
\* month has both.
C19_MissingDataFails ==
    /\ (last.op = "generate_ppt" /\ last.res = "document") => cls.loaded
    /\ Loaded =>
          /\ (ExpectedRows(Cfg) = {} \/ ExpectedRows(Fin) = {})
                => last.res = "no_data"
          /\ (/\ ExpectedRows(Cfg) # {}
              /\ ExpectedRows(Fin) # {}
              /\ ~(HasAtTarget(Cfg) /\ HasAtTarget(Fin)))
                => last.res = "current_month_missing"
          /\ last.res = "document"
                => (HasAtTarget(Cfg) /\ HasAtTarget(Fin))

\* A request failed for the current month only: the window holds rows of
\* both tables and the target month has its configuration row, but no
\* aggregate row.
C19_Witness ==
    /\ Loaded
    /\ last.res = "current_month_missing"
    /\ ExpectedRows(Fin) # {}
    /\ HasAtTarget(Cfg)
    /\ ~HasAtTarget(Fin)

AbbrIndex(b) == CHOOSE i \in DOMAIN MonthAbbr : MonthAbbr[i] = b

\* Label l1 names an earlier month than label l2.
LabelBefore(l1, l2) ==
    \/ l1.y < l2.y
    \/ l1.y = l2.y /\ AbbrIndex(l1.b) < AbbrIndex(l2.b)

\* The aggregate rows of the window whose month carries label l.
RowsOfLabel(l) == {k \in ExpectedRows(Fin) : Strftime(k[2]) = l}

\* C20: in every chart block of an assembled document the month labels
\* are strictly ascending, every series has one value per label, and the
\* i-th value of a series is the value of the aggregate row of the i-th
\* label's month, in whatever order the rows were loaded.
C20_ChartSeries ==
    (last.op = "generate_ppt" /\ last.res = "document") =>
        LET av == cls.data.slide2
            us == cls.data.slide3
            n == Len(av.Months)
        IN  /\ us.Months = av.Months
            /\ \A i, j \in 1..n :
                  i < j => LabelBefore(av.Months[i], av.Months[j])
            /\ Len(av.Availability) = n
            /\ Len(av.SLA) = n
            /\ Len(us.Prod) = n
            /\ Len(us.Test) = n
            /\ Len(us.Licenses) = n
            /\ Len(us.Dev) \in {0, n}
            /\ \A i \in 1..n : \A k \in RowsOfLabel(av.Months[i]) :
                  /\ av.Availability[i]
                        = db[Fin][k].av.updated_availability.hundredths
                  /\ av.SLA[i] = db[Fin][k].av.updated_target.hundredths
                  /\ us.Prod[i] = db[Fin][k].us.updated_prod_used
                  /\ us.Test[i] = db[Fin][k].us.updated_test_used
                  /\ us.Licenses[i] = db[Fin][k].us.updated_prod_limit

Document == last.op = "generate_ppt" /\ last.res = "document"

\* The tiers of the rows of a table of the document.
Tiers(rows) == {rows[i][1] : i \in DOMAIN rows}

\* C21: the license table, the license chart and the storage table carry a
\* dev row or series exactly when the configuration row of the target
\* month has three environments; otherwise they carry prod and test only.
C21_DevOnlyWithThreeEnvironments ==
    Document =>
        LET three == db[Cfg][ReportTarget].no_of_environments = 3
        IN  /\ Tiers(cls.data.license_rows)
                  = {"Prod", "Test"} \cup (IF three THEN {"Dev"} ELSE {})
            /\ Len(cls.data.license_rows) = (IF three THEN 3 ELSE 2)
            /\ Tiers(cls.data.storage_rows)
                  = {"Prod(GB)", "Test(GB)"}
                    \cup (IF three THEN {"Dev(GB)"} ELSE {})
            /\ Len(cls.data.storage_rows) = (IF three THEN 3 ELSE 2)
            /\ (cls.data.slide3.Dev # <<>>) = three
            /\ Len(cls.data.slide3.Prod) = Len(cls.data.slide3.Months)
            /\ Len(cls.data.slide3.Test) = Len(cls.data.slide3.Months)
            /\ Len(cls.data.slide3.Licenses) = Len(cls.data.slide3.Months)

\* A document for a customer with four environments: no dev row.
C21_Witness ==
    /\ Document
    /\ db[Cfg][ReportTarget].no_of_environments = 4
    /\ Len(cls.data.license_rows) = 2

\* C22: the prior-month backlog of the ticket section is the backlog of
\* the customer's aggregate row one month before the target whenever the
\* store holds such a row, for every window length, and 0 otherwise.
C22_PriorBacklog ==
    Document =>
        LET prev == <<ReportTarget[1], ReportTarget[2] - 100>>
        IN  cls.data.backlog_active_prev
              = (IF prev \in ReportKeys /\ db[Fin][prev] # NoRow
                 THEN db[Fin][prev].tk.updated_tickets_backlog
                 ELSE 0)

Attached == last'.op = "attach_comment" /\ last'.res = "ok"

\* The entries of the log that an attach_comment request names: table of
\* the section, operation, customer and month, whatever their comment.
NamedEntries(req) ==
    {id \in DOMAIN db :
        /\ db[id].table_name = TableOfSection(req.inp.section)
        /\ db[id].operation_type = req.inp.operation
        /\ db[id].customer_name = req.customer
        /\ db[id].month_text.date = MkDate(req.month.m, req.month.d)}

Commented(e) == e.comment # SqlNull /\ e.comment # Text("")

\* C23: attach_comment never changes an entry that has a comment; when it
\* succeeds it has written the comment to one entry, which had none,
\* matches the request and is the most recent such entry; when no entry
\* without comment matches it reports failure and the log is unchanged.
C23_CommentOnce ==
    [][/\ \A id \in DOMAIN db : Commented(db[id]) => db'[id] = db[id]
       /\ Attached =>
            \E id \in NamedEntries(last') :
               /\ ~Commented(db[id])
               /\ db'[id].comment = last'.inp.comment
               /\ Commented(db'[id])
               /\ cls'.audit_id = id
               /\ \A other \in DOMAIN db \ {id} : db'[other] = db[other]
               /\ \A other \in NamedEntries(last') :
                     ~Commented(db[other])
                        => db[other].changed_at <= db[id].changed_at
       /\ (/\ last'.op = "attach_comment"
           /\ last'.month.fmt = "ymd"
           /\ \A id \in NamedEntries(last') : Commented(db[id]))
            => (last'.res # "ok" /\ db' = db)]_vars

\* A second comment went to the older entry: the most recent matching
\* entry already carries the comment of an earlier request.
C23_Witness ==
    /\ last.op = "attach_comment"
    /\ last.res = "ok"
    /\ \E id \in DOMAIN db :
          /\ id # cls.audit_id
          /\ db[id].section_name # SqlNull
          /\ db[id].changed_at > db[cls.audit_id].changed_at
          /\ db[id].customer_name = db[cls.audit_id].customer_name
          /\ db[id].month_text.date = db[cls.audit_id].month_text.date
          /\ db[id].table_name = db[cls.audit_id].table_name

AllEnded == \A r \in DOMAIN cls : cls[r].pc = "ended"

\* C24: once the requests have ended, whether the file was delivered,
\* sending failed or an error occurred after the file was written, no
\* output file of a request remains in the directory.
C24_NoFileRemains ==
    AllEnded => \A n \in DOMAIN db : db[n] = NoFile

\* C30: overlapping requests for the same customer and month do not
\* interfere: a request sends the file it generated itself, and the
\* cleanup of one request never removes the output file of another
\* request that has written it and has not yet sent it.
C30_NoInterference ==
    [][\A r \in DOMAIN cls :
         /\ (cls[r].pc = "written" /\ cls'[r].pc = "sending")
               => cls'[r].sent = r
         /\ (cls[r].pc = "written" /\ cls'[r].pc = "ended")
               => db[OutputFilename(cls[r].target[1], cls[r].target[2])]
                     # NoFile
         /\ (cls[r].pc = "sending" /\ cls'[r].pc = "ended")
               => \A other \in DOMAIN cls \ {r} :
                     (/\ cls[other].pc \in {"written", "sending"}
                      /\ OutputFilename(cls[other].target[1],
                                        cls[other].target[2])
                           = OutputFilename(cls[r].target[1],
                                            cls[r].target[2]))
                        => db' = db]_vars

\* C25: every key the application writes has its month on the first day:
\* the rows insert_record creates for an accepted month input carry day 1,
\* the key delete_record addresses.
C25_FirstDayKeys ==
    \A t \in Tables : \A k \in Keys : db[t][k] # NoRow => k[2] % 100 = 1

Larger2(a, b) == IF a >= b THEN a ELSE b

\* The step is a check_session or a protected request of a session that
\* carries a username.
Guarded ==
    /\ last'.op \in {"check_session", "metrics"}
    /\ db'.now = db.now
    /\ db.session.username
    /\ (last' # last \/ db' # db \/ cls' # cls)

\* What C28 asks of a guarded request, with the inactivity counted from
\* time `since`.
TimeoutFrom(since) ==
    /\ (db.now - since > 30)
          => (db'.session = NoSession /\ last'.res \in {"redirect", "expired"})
    /\ (db.now - since <= 30 /\ last'.op = "metrics")
          => (/\ last'.res = "served"
              /\ db'.session.last_activity = db.now
              /\ db'.session.username)

CheckSessionReads ==
    (last'.op = "check_session" /\ db'.now = db.now)
        => (db'.session = db.session \/ db'.session = NoSession)

\* C28 as stated: the inactivity is counted from the last request other
\* than check_session, login or static.
C28_InactivityTimeout ==
    [][/\ CheckSessionReads
       /\ (Guarded /\ cls.counted # NoTime) => TimeoutFrom(cls.counted)]_vars

\* C28, amended: the inactivity is counted from the last successful login
\* or the last request other than check_session, login or static,
\* whichever is later.
C28_InactivityTimeoutSinceLogin ==
    [][/\ CheckSessionReads
       /\ Guarded => TimeoutFrom(Larger2(cls.counted, cls.login))]_vars

\* A check_session found the session expired although check_session had
\* been polled since the last activity.
C28_Witness ==
    /\ last.op = "check_session"
    /\ last.res = "expired"
    /\ db.session = NoSession
    /\ cls.counted # NoTime
    /\ db.now - cls.counted > 30

\* C27: delete_record for (C, M) leaves every row of every table whose key
\* is not exactly (C, M) as it was, also the rows of a customer whose name
\* differs from C only in letter case or surrounding spaces.
C27_DeleteFrame ==
    [][last'.op = "delete_record" =>
        \A t \in Tables : \A k \in Keys :
            k # <<Strip(last'.customer), ParseDeleteMonth(last'.month)>>
                => db'[t][k] = db[t][k]
    ]_vars

Serial(s, d) ==
    LET req == db.tx[s].req
    IN  IF req.op = "save_users"
        THEN save_users(d, NameA, req.month, req.inp, 0).db
        ELSE save_storage(d, NameA, req.month, req.inp, 0).db

\* The domain rows and the aggregate row of every key hold the same
\* values.
TablesAgree(d) ==
    \A k \in Keys :
        Has(d, "final_computed_table", k) =>
            /\ Has(d, "users_table", k) =>
                  d["users_table"][k].upd = d["final_computed_table"][k].us
            /\ Has(d, "storage_table", k) =>
                  d["storage_table"][k].upd = d["final_computed_table"][k].st

\* C26: while two sessions edit the same customer with their statements
\* interleaved, the committed tables never hold part of an edit: they are
\* the tables before the requests, with the committed edits applied one
\* after the other; after both have committed they are the result of one
\* of the two serial orders and the domain tables agree with the aggregate
\* table.
C26_SerialEdits ==
    LET c1 == db.tx[1].pc = 5
        c2 == db.tx[2].pc = 5
        d == db.committed
    IN  /\ (~c1 /\ ~c2) => d = cls
        /\ (c1 /\ ~c2) => d = Serial(1, cls)
        /\ (c2 /\ ~c1) => d = Serial(2, cls)
        /\ (c1 /\ c2) =>
              /\ d \in {Serial(2, Serial(1, cls)), Serial(1, Serial(2, cls))}
              /\ TablesAgree(d)

\* One session's edit was ended by a deadlock with the other's, which
\* has committed alone.
DeadlockSeen ==
    \E s \in Sessions : db.tx[s].pc = 6 /\ db.tx[Other(s)].pc = 5

\* Both sessions have committed edits of the same kind for different
\* months, and the order in which they are applied matters.
C26_Witness ==
    /\ db.tx[1].pc = 5
    /\ db.tx[2].pc = 5
    /\ db.tx[1].req.op = db.tx[2].req.op
    /\ SqlDate(db.tx[1].req.month) < SqlDate(db.tx[2].req.month)
    /\ Serial(2, Serial(1, cls)) # Serial(1, Serial(2, cls))
    /\ db.committed = Serial(1, Serial(2, cls))

====
